---- MODULE Spec2Model ----
(***************************************************************************)
(* GradePal: the grade planner screen (app/grade-planner/[subject].tsx).   *)
(*                                                                         *)
(* Text fields (weight, grade, final subject grade) are sequences of       *)
(* one-character strings, so that parsing (toNum) and formatting (toFixed) *)
(* are computed character by character.  Numbers are exact rationals       *)
(* [n |-> numerator, d |-> denominator > 0]; Null (d = 0) stands for the   *)
(* JavaScript null of the "number | null" values.                          *)
(***************************************************************************)
EXTENDS Integers, Sequences, FiniteSets, TLC

\* ------------------------------------------------------------------------
\* Rational arithmetic (the JavaScript number type, without rounding error)
\* ------------------------------------------------------------------------
RECURSIVE Gcd(_, _)
Gcd(a, b) == IF b = 0 THEN a ELSE Gcd(b, a % b)

Abs(i) == IF i < 0 THEN 0 - i ELSE i

Rat(n, d) ==
  LET g == Gcd(Abs(n), d)
  IN  [n |-> n \div g, d |-> d \div g]

Null == [n |-> 0, d |-> 0]

Num(i) == [n |-> i, d |-> 1]

\* the common factor of two denominators (1 when one of them is null)
DenGcd(a, b) == IF a.d = 0 \/ b.d = 0 THEN 1 ELSE Gcd(a.d, b.d)

RAdd(a, b) ==
  LET g == DenGcd(a, b)
  IN  Rat(a.n * (b.d \div g) + b.n * (a.d \div g), (a.d \div g) * b.d)

RSub(a, b) ==
  LET g == DenGcd(a, b)
  IN  Rat(a.n * (b.d \div g) - b.n * (a.d \div g), (a.d \div g) * b.d)

RMul(a, b) == Rat(a.n * b.n, a.d * b.d)

\* a / b for b > 0
RDiv(a, b) == Rat(a.n * b.d, a.d * b.n)

RLe(a, b) ==
  LET g == DenGcd(a, b)
  IN  a.n * (b.d \div g) <= b.n * (a.d \div g)

RLt(a, b) ==
  LET g == DenGcd(a, b)
  IN  a.n * (b.d \div g) < b.n * (a.d \div g)

RAbs(a) == [n |-> Abs(a.n), d |-> a.d]

RMax(a, b) == IF RLe(a, b) THEN b ELSE a

RMin(a, b) == IF RLe(a, b) THEN a ELSE b

\* ------------------------------------------------------------------------
\* Text
\* ------------------------------------------------------------------------
DigitChars == <<"0", "1", "2", "3", "4", "5", "6", "7", "8", "9">>

IsDigit(c) == \E k \in 1..10 : DigitChars[k] = c

DigitVal(c) == (CHOOSE k \in 1..10 : DigitChars[k] = c) - 1

\* JavaScript undefined (an optional field that is absent)
Undefined == <<"undefined">>

AllDigits(s) == \A k \in 1..Len(s) : IsDigit(s[k])

RECURSIVE DigitsVal(_)
DigitsVal(s) ==
  IF s = <<>> THEN 0
  ELSE DigitsVal(SubSeq(s, 1, Len(s) - 1)) * 10 + DigitVal(s[Len(s)])

RECURSIVE Pow10(_)
Pow10(k) == IF k = 0 THEN 1 ELSE 10 * Pow10(k - 1)

\* s.replace(/,/g, ".")
CommaToDot(s) == [k \in 1..Len(s) |-> IF s[k] = "," THEN "." ELSE s[k]]

\* t.replace(/[^0-9.]/g, "")
RECURSIVE KeepDigitsAndDots(_)
KeepDigitsAndDots(t) ==
  IF t = <<>> THEN <<>>
  ELSE IF IsDigit(Head(t)) \/ Head(t) = "."
       THEN <<Head(t)>> \o KeepDigitsAndDots(Tail(t))
       ELSE KeepDigitsAndDots(Tail(t))

\* Number(s) for an unsigned decimal literal: digits, digits "." digits?,
\* "." digits.  NaN is returned as Null.
UnsignedNumber(s) ==
  LET dots == {k \in 1..Len(s) : s[k] = "."}
  IN  IF dots = {}
      THEN IF Len(s) >= 1 /\ AllDigits(s) THEN Num(DigitsVal(s)) ELSE Null
      ELSE LET p     == CHOOSE k \in dots : \A j \in dots : k <= j
               ip    == SubSeq(s, 1, p - 1)
               fp    == SubSeq(s, p + 1, Len(s))
           IN  IF AllDigits(ip) /\ AllDigits(fp) /\ Len(ip) + Len(fp) >= 1
               THEN Rat(DigitsVal(ip) * Pow10(Len(fp)) + DigitsVal(fp), Pow10(Len(fp)))
               ELSE Null

\* Number(s): the empty string is 0, an optional sign, then a decimal literal
JsNumber(s) ==
  IF s = <<>> THEN Num(0)
  ELSE IF Head(s) = "-"
       THEN LET u == UnsignedNumber(Tail(s))
            IN  IF u = Null THEN Null ELSE [n |-> 0 - u.n, d |-> u.d]
       ELSE IF Head(s) = "+" THEN UnsignedNumber(Tail(s))
       ELSE UnsignedNumber(s)

toNum(s) ==
  LET n == JsNumber(CommaToDot(IF s = Undefined THEN <<>> ELSE s))
  IN  IF n = Null THEN Num(0) ELSE n

\* variant: the lower bound is not applied
clampUpperOnly(n, lo, hi) == RMin(hi, n)

\* variant: the upper bound is not applied
clampLowerOnly(n, lo, hi) == RMax(lo, n)

clamp(n, lo, hi) == RMax(lo, RMin(hi, n))

\* variant: no clamping at all
clamp100Unbounded(n) == n

clamp100(n) == clamp(n, Num(0), Num(100))

Eps == Rat(5, 100)

\* variant: the tolerance excludes its boundary
approxEqualStrict(a, b) == RLt(RAbs(RSub(a, b)), Eps)

approxEqual(a, b) == RLe(RAbs(RSub(a, b)), Eps)

RECURSIVE NatToText(_)
NatToText(i) ==
  IF i < 10 THEN <<DigitChars[i + 1]>>
  ELSE NatToText(i \div 10) \o <<DigitChars[(i % 10) + 1]>>

\* n.toFixed(1) for n >= 0: the nearest tenth, the larger one on a tie
toFixed1(x) ==
  LET t == (20 * x.n + x.d) \div (2 * x.d)
  IN  NatToText(t \div 10) \o <<".", DigitChars[(t % 10) + 1]>>

\* ------------------------------------------------------------------------
\* Assessment items
\* ------------------------------------------------------------------------
Item(id, name, weight, grade, type, hurdle, due) ==
  [id |-> id, name |-> name, weight |-> weight, grade |-> grade,
   type |-> type, hurdle |-> hurdle, dueDateISO |-> due]

seed ==
  << Item("a1", "Assignment 1", <<"2", "0">>, <<>>, "Assignment", FALSE, Undefined),
     Item("a2", "Assignment 2", <<"3", "0">>, <<>>, "Assignment", FALSE, Undefined),
     Item("exam", "Exam", <<"5", "0">>, <<>>, "Exam", FALSE, Undefined) >>

\* s.trim()
RECURSIVE TrimLeft(_)
TrimLeft(s) == IF s # <<>> /\ Head(s) = " " THEN TrimLeft(Tail(s)) ELSE s

RECURSIVE TrimRight(_)
TrimRight(s) ==
  IF s # <<>> /\ s[Len(s)] = " " THEN TrimRight(SubSeq(s, 1, Len(s) - 1)) ELSE s

Trim(s) == TrimRight(TrimLeft(s))

\* i.grade !== undefined && i.grade !== ""
\* variant: a grade of 0 counts as no grade
hasGradeNonZero(i) ==
  i.grade # Undefined /\ i.grade # <<>> /\ toNum(i.grade) # Num(0)

hasGrade(i) == i.grade # Undefined /\ i.grade # <<>>

\* the first loop of the stats memo: totalWeight, completedWeight, contributions
\* variant: an ungraded item's weight counts as completed
RECURSIVE AggregateLoopCountingUngraded(_, _)
AggregateLoopCountingUngraded(its, acc) ==
  IF its = <<>> THEN acc
  ELSE LET i == Head(its)
           w == clamp100(toNum(i.weight))
           g == clamp100(toNum(i.grade))
       IN  AggregateLoopCountingUngraded(Tail(its),
             [totalWeight     |-> RAdd(acc.totalWeight, w),
              completedWeight |-> RAdd(acc.completedWeight, w),
              contributions   |-> IF hasGrade(i)
                                  THEN RAdd(acc.contributions, RDiv(RMul(w, g), Num(100)))
                                  ELSE acc.contributions])

\* variant: the contribution of a graded item is the marks it lost
RECURSIVE AggregateLoopLostMarks(_, _)
AggregateLoopLostMarks(its, acc) ==
  IF its = <<>> THEN acc
  ELSE LET i == Head(its)
           w == clamp100(toNum(i.weight))
           g == clamp100(toNum(i.grade))
       IN  AggregateLoopLostMarks(Tail(its),
             IF hasGrade(i)
             THEN [totalWeight     |-> RAdd(acc.totalWeight, w),
                   completedWeight |-> RAdd(acc.completedWeight, w),
                   contributions   |-> RAdd(acc.contributions,
                                            RDiv(RMul(w, RSub(Num(100), g)), Num(100)))]
             ELSE [acc EXCEPT !.totalWeight = RAdd(acc.totalWeight, w)])

RECURSIVE AggregateLoop(_, _)
AggregateLoop(its, acc) ==
  IF its = <<>> THEN acc
  ELSE LET i == Head(its)
           w == clamp100(toNum(i.weight))
           g == clamp100(toNum(i.grade))
       IN  AggregateLoop(Tail(its),
             IF hasGrade(i)
             THEN [totalWeight     |-> RAdd(acc.totalWeight, w),
                   completedWeight |-> RAdd(acc.completedWeight, w),
                   contributions   |-> RAdd(acc.contributions, RDiv(RMul(w, g), Num(100)))]
             ELSE [acc EXCEPT !.totalWeight = RAdd(acc.totalWeight, w)])

\* items.findIndex((x) => x.type === "Exam"), 0-based, -1 when there is none
findExamIdx(its) ==
  LET exams == {k \in 1..Len(its) : its[k].type = "Exam"}
  IN  IF exams = {} THEN 0 - 1
      ELSE (CHOOSE k \in exams : \A j \in exams : k <= j) - 1

\* the second loop of the stats memo: otherContribution, otherAnyMissing
\* variant: Exam items are not skipped
RECURSIVE OtherLoopCountingExam(_, _)
OtherLoopCountingExam(its, acc) ==
  IF its = <<>> THEN acc
  ELSE LET i == Head(its)
           w == clamp100(toNum(i.weight))
           g == clamp100(toNum(i.grade))
       IN  OtherLoopCountingExam(Tail(its),
             IF hasGrade(i)
             THEN [acc EXCEPT !.otherContribution =
                          RAdd(acc.otherContribution, RDiv(RMul(w, g), Num(100)))]
             ELSE IF RLt(Num(0), w) /\ i.type # "Exam"
                  THEN [acc EXCEPT !.otherAnyMissing = TRUE]
                  ELSE acc)

RECURSIVE OtherLoop(_, _)
OtherLoop(its, acc) ==
  IF its = <<>> THEN acc
  ELSE LET i == Head(its)
           w == clamp100(toNum(i.weight))
           g == clamp100(toNum(i.grade))
       IN  OtherLoop(Tail(its),
             IF i.type = "Exam" THEN acc
             ELSE IF hasGrade(i)
                  THEN [acc EXCEPT !.otherContribution =
                               RAdd(acc.otherContribution, RDiv(RMul(w, g), Num(100)))]
                  ELSE IF RLt(Num(0), w)
                       THEN [acc EXCEPT !.otherAnyMissing = TRUE]
                       ELSE acc)

\* the hurdle flags of the stats memo
\* variant: a hurdle grade of exactly 50 counts as failed
anyHurdleFailedAt50Of(its) ==
  \E k \in 1..Len(its) :
     /\ its[k].hurdle
     /\ hasGrade(its[k])
     /\ RLe(clamp100(toNum(its[k].grade)), Num(50))

anyHurdleFailedOf(its) ==
  \E k \in 1..Len(its) :
     /\ its[k].hurdle
     /\ hasGrade(its[k])
     /\ RLt(clamp100(toNum(its[k].grade)), Num(50))

anyHurdleMissingOf(its) ==
  \E k \in 1..Len(its) : its[k].hurdle /\ ~hasGrade(its[k])

\* the part of the stats memo after its two loops: range, required average,
\* exam solve (agg and other are the loops' results, examIdx the findIndex)
statsFrom(its, target, final, agg, other, examIdx, finalGradeNumeric) ==
  LET sumContribution == agg.contributions
      remainingWeight == clamp100(RSub(Num(100), agg.completedWeight))
      accumulated     == clamp100(sumContribution)
      finalMin        == accumulated
      requiredOnRemaining ==
        IF RLt(Num(0), remainingWeight)
        THEN RMul(RDiv(RSub(target, sumContribution), remainingWeight), Num(100))
        ELSE Null
      examWeight ==
        IF examIdx >= 0 THEN clamp100(toNum(its[examIdx + 1].weight)) ELSE Num(0)
      canAutoCalcExam ==
        /\ finalGradeNumeric # Null
        /\ examIdx >= 0
        /\ RLt(Num(0), examWeight)
        /\ ~other.otherAnyMissing
      requiredExamToHitFinal ==
        IF canAutoCalcExam /\ finalGradeNumeric # Null
        THEN clamp100(RMul(RDiv(RSub(finalGradeNumeric, other.otherContribution), examWeight),
                           Num(100)))
        ELSE Null
  IN  [sumContribution        |-> sumContribution,
       totalWeight            |-> agg.totalWeight,
       remainingWeight        |-> remainingWeight,
       finalMin               |-> finalMin,
       finalMax               |-> clamp100(RAdd(accumulated, remainingWeight)),
       requiredOnRemaining    |-> requiredOnRemaining,
       anyHurdleFailed        |-> anyHurdleFailedOf(its),
       anyHurdleMissing       |-> anyHurdleMissingOf(its),
       finalGradeNumeric      |-> finalGradeNumeric,
       canAutoCalcExam        |-> canAutoCalcExam,
       requiredExamToHitFinal |-> requiredExamToHitFinal,
       examIdx                |-> examIdx,
       examWeight             |-> examWeight,
       otherAnyMissingForAutoCalc   |-> other.otherAnyMissing,
       otherContributionForAutoCalc |-> other.otherContribution]

\* finalSubjectGrade.trim() !== "" ? clamp(toNum(finalSubjectGrade), 0, 100) : null
finalGradeNumericOf(final) ==
  IF Trim(final) # <<>> THEN clamp100(toNum(final)) ELSE Null

\* variant: the remaining weight is what is left of totalWeight, not of 100
useMemoStatsOfTotal(its, target, final) ==
  LET agg == AggregateLoop(its, [totalWeight |-> Num(0), completedWeight |-> Num(0),
                                 contributions |-> Num(0)])
  IN  statsFrom(its, target, final,
                [agg EXCEPT !.completedWeight =
                    RAdd(RSub(Num(100), agg.totalWeight), agg.completedWeight)],
                OtherLoop(its, [otherContribution |-> Num(0), otherAnyMissing |-> FALSE]),
                findExamIdx(its),
                finalGradeNumericOf(final))

\* the whole stats memo: useMemo(() => {...}, [items, targetPass, finalSubjectGrade])
useMemoStats(its, target, final) ==
  statsFrom(its, target, final,
            AggregateLoop(its, [totalWeight |-> Num(0), completedWeight |-> Num(0),
                                contributions |-> Num(0)]),
            OtherLoop(its, [otherContribution |-> Num(0), otherAnyMissing |-> FALSE]),
            findExamIdx(its),
            finalGradeNumericOf(final))

\* the values the component body derives from the memo on every render
hasRemainingOf(m) == RLt(Rat(1, 100), m.remainingWeight)

isPerfectOf(m) == RLt(RAbs(RSub(m.totalWeight, Num(100))), Rat(1, 100))

alreadyPassedOf(m, target) ==
  ~m.anyHurdleFailed /\ ~m.anyHurdleMissing /\ RLe(target, m.finalMin)

\* variant: any positive remaining weight counts
impossibleAnyRemainingOf(m, target) ==
  RLt(m.finalMax, target) /\ RLt(Num(0), m.remainingWeight)

impossibleToPassByMarksOf(m, target) == RLt(m.finalMax, target) /\ hasRemainingOf(m)

\* variant: the required average is shown as computed
requiredDisplayRawOf(m) == m.requiredOnRemaining

requiredDisplayOf(m) ==
  IF m.requiredOnRemaining # Null
  THEN RMax(Num(0), RMin(Num(100), m.requiredOnRemaining))
  ELSE Null

finalOutOfRangeOf(m) ==
  /\ m.finalGradeNumeric # Null
  /\ \/ RLt(m.finalGradeNumeric, RSub(m.finalMin, Eps))
     \/ RLt(RAdd(m.finalMax, Eps), m.finalGradeNumeric)

\* variant: the warning does not wait for the blur
showFinalRangeWarningUngated(m, flag) == finalOutOfRangeOf(m)

\* showFinalRangeWarning = finalGradeShowRangeWarning && finalOutOfRange
showFinalRangeWarningOf(m, flag) == flag /\ finalOutOfRangeOf(m)

\* the pass card: the chain of conditional branches, first match wins
\* variant: the finalised branch is tested before the hurdle branch
passCardOutcomeFinalizedFirst(m, target) ==
  IF ~hasRemainingOf(m) THEN "Finalized"
  ELSE IF m.anyHurdleFailed THEN "HurdleBlocked"
  ELSE IF impossibleToPassByMarksOf(m, target) THEN "Impossible"
  ELSE IF alreadyPassedOf(m, target) THEN "AlreadyPassed"
  ELSE "NeedsAverage"

\* variant: the chain has no impossible branch
passCardOutcomeNeverImpossible(m, target) ==
  IF m.anyHurdleFailed THEN "HurdleBlocked"
  ELSE IF ~hasRemainingOf(m) THEN "Finalized"
  ELSE IF alreadyPassedOf(m, target) THEN "AlreadyPassed"
  ELSE "NeedsAverage"

\* variant: the already-passed branch is tested before the finalised branch
passCardOutcomePassedFirst(m, target) ==
  IF m.anyHurdleFailed THEN "HurdleBlocked"
  ELSE IF impossibleToPassByMarksOf(m, target) THEN "Impossible"
  ELSE IF alreadyPassedOf(m, target) THEN "AlreadyPassed"
  ELSE IF ~hasRemainingOf(m) THEN "Finalized"
  ELSE "NeedsAverage"

passCardOutcome(m, target) ==
  IF m.anyHurdleFailed THEN "HurdleBlocked"
  ELSE IF impossibleToPassByMarksOf(m, target) THEN "Impossible"
  ELSE IF ~hasRemainingOf(m) THEN "Finalized"
  ELSE IF alreadyPassedOf(m, target) THEN "AlreadyPassed"
  ELSE "NeedsAverage"

\* ------------------------------------------------------------------------
\* The planner screen: component state, stats memo and effect bookkeeping
\* ------------------------------------------------------------------------
VARIABLES
  items,                       \* useState<Assessment[]>(seed)
  targetPass,                  \* useState<number>(50)
  finalSubjectGrade,           \* useState<string>("")
  autoCalcExamFromFinal,       \* useState<boolean>(true)
  finalGradeShowRangeWarning,  \* useState(false)
  memo,          \* the stats memo as computed by the last render
  passCard,      \* the outcome the pass card showed at the last render
  effectDeps,    \* the dependency arrays of the effects at the last render
  pending,       \* effects scheduled by the last render that have not run yet
  dirty,         \* state was set since the last render: a render is due
  loadState,     \* the storage read of the load effect: "reading" or "done"
  nextId,        \* number of items added so far (ids come from Date.now())
  edits,         \* number of handlers run so far in this session
  lastEdit,      \* history: the kind of the last handler that ran
  effectWrites,  \* history: grade writes made by effects since the last handler
  writeBackRuns, \* history: runs of the write-back effect since the last handler
  solved,        \* history: ids of the items whose grade the write-back wrote
  storage,       \* AsyncStorage: the text stored under the planner key and the subjects key
  requests,      \* AsyncStorage calls made and not yet served, in call order
  replies,       \* served reads whose awaiting code has not resumed yet
  storePending,  \* load, persist and final-mark effects scheduled and not yet run
  storeDeps,     \* the dependency arrays of the persist and final-mark effects
  openedOn,      \* history: what storage held when the screen was opened
  studyMin,      \* pomodoro: useState("25"), as the number its digits spell
  breakMin,      \* pomodoro: useState("5")
  remainingSec,  \* pomodoro: useState(25 * 60)
  running,       \* pomodoro: useState(false)
  onBreak,       \* pomodoro: useState(false)
  log,           \* pomodoro: useState<SessionEntry[]>([])
  timerRef,      \* pomodoro: useRef(null): the id of an interval, 0 for null
  justLoggedRef, \* pomodoro: the intervals whose next tick may come within 750 ms
                 \* of the time in justLoggedRef.current
  onBreakRef,    \* pomodoro: useRef(onBreak)
  intervals,     \* pomodoro: the intervals set and not cleared, each with the
                 \* render its callback closes over
  alerts,        \* pomodoro: the alerts shown and not yet answered
  shown,         \* pomodoro: what the functions of the last render close over
  stale,         \* pomodoro: state was set since the last render
  logStore,      \* pomodoro: the log stored under LOG_KEY
  logLoaded,     \* pomodoro: loadLog has resumed after its read
  made,          \* pomodoro: number of setInterval calls so far
  completions,   \* pomodoro: number of countdowns that have reached zero
  presses        \* pomodoro: number of presses and edits handled so far

\* what the storage effects of the screen read and write
storeVars == << storage, requests, replies, storePending, storeDeps, openedOn >>

\* the state outside the planner's fields, memo and item effects
\* the state of the pomodoro screen
timerVars ==
  << studyMin, breakMin, remainingSec, running, onBreak, log, timerRef, justLoggedRef,
     onBreakRef, intervals, alerts, shown, stale, logStore, logLoaded, made,
     completions, presses >>

offScreen == << storeVars, timerVars >>

vars ==
  << items, targetPass, finalSubjectGrade, autoCalcExamFromFinal,
     finalGradeShowRangeWarning, memo, passCard, effectDeps, pending, dirty,
     loadState, nextId, edits, lastEdit, effectWrites, writeBackRuns, solved,
     offScreen >>

\* getItem resolves to null: nothing is stored under the key
NoText == [raw |-> "none", json |-> <<>>]

\* no storage effect is scheduled and no storage call is in flight
StoreIdle ==
  /\ storage = [planner |-> NoText, subjects |-> NoText]
  /\ requests = <<>>
  /\ replies = <<>>
  /\ storePending = {}
  /\ storeDeps = <<>>
  /\ openedOn = [planner |-> NoText, subjects |-> NoText]

\* the pomodoro screen as mounted, its timer never started
TimerIdle ==
  /\ studyMin = 25
  /\ breakMin = 5
  /\ remainingSec = 25 * 60
  /\ running = FALSE
  /\ onBreak = FALSE
  /\ log = <<>>
  /\ timerRef = 0
  /\ justLoggedRef = {}
  /\ onBreakRef = FALSE
  /\ intervals = {}
  /\ alerts = <<>>
  /\ shown = [running |-> FALSE, expired |-> FALSE, onBreak |-> FALSE, log |-> <<>>,
              studyMin |-> 25, breakMin |-> 5]
  /\ stale = FALSE
  /\ logStore = <<>>
  /\ logLoaded = FALSE
  /\ made = 0
  /\ completions = 0
  /\ presses = 0

OffScreenIdle == StoreIdle /\ TimerIdle

\* number of edits the user makes in one session
MaxEdits == 2

\* the history counter effectWrites stops counting here
WritesCap == 3

\* what the user types into a grade field
TypedGrades == { <<"8", "0">>, <<"3", "0", "%">> }

\* what the user types into a weight field
TypedWeights == { <<"5", "0">> }

\* what the user types into the final subject grade field
TypedFinals == { <<"7", "0", ".", "0", "2", "5">>, <<"9", "0">> }

\* what the user types into the pass mark field
TypedTargets == { <<"7", "0">> }

\* the type chips of a row
Kinds == { "Assignment", "Exam", "Quiz" }

\* planners a previous session may have left in storage; solvedIds names the
\* items whose stored grade that session's write-back had written
SavedPlanners ==
  { [items |-> << Item("a2", "Assignment 2", <<"5", "0">>, <<"8", "0">>, "Assignment",
                       TRUE, Undefined),
                  Item("exam", "Exam", <<"5", "0">>, <<"6", "0", ".", "0">>, "Exam",
                       FALSE, <<"2", "0", "2", "6", "-", "1", "1", "-", "2", "0">>) >>,
     targetPass |-> Num(50),
     finalSubjectGrade |-> <<"7", "0">>,
     autoCalcExamFromFinal |-> TRUE,
     solvedIds |-> {"exam"}],
    [items |-> << Item("a1", "Assignment 1", <<"2", "0">>, <<"8", "0">>, "Assignment",
                       FALSE, Undefined),
                  Item("a2", "Assignment 2", <<"3", "0">>, <<"3", "0">>, "Quiz",
                       TRUE, Undefined),
                  Item("exam", "Exam", <<"5", "0">>, <<"8", "0">>, "Exam",
                       FALSE, Undefined) >>,
     targetPass |-> Num(70),
     finalSubjectGrade |-> <<"7", "0">>,
     autoCalcExamFromFinal |-> FALSE,
     solvedIds |-> {}] }

ItemIds == {items[k].id : k \in 1..Len(items)}

IndexOfId(id) == CHOOSE k \in 1..Len(items) : items[k].id = id

Quiescent == ~dirty /\ pending = {}

\* --- render: recompute the memo, schedule the effects whose deps changed ---
\* variant: the clear effect depends on the toggle alone
depsOfToggleOnly(m, final, auto) ==
  [clear     |-> <<auto>>,
   writeBack |-> <<auto, m.canAutoCalcExam, m.requiredExamToHitFinal, m.examIdx>>]

depsOf(m, final, auto) ==
  [clear     |-> <<final, auto>>,
   writeBack |-> <<auto, m.canAutoCalcExam, m.requiredExamToHitFinal, m.examIdx>>]

\* the first render has run: the memo is computed and every effect is scheduled
Init ==
  /\ items = seed
  /\ targetPass = Num(50)
  /\ finalSubjectGrade = <<>>
  /\ autoCalcExamFromFinal = TRUE
  /\ finalGradeShowRangeWarning = FALSE
  /\ memo = useMemoStats(seed, Num(50), <<>>)
  /\ passCard = passCardOutcome(useMemoStats(seed, Num(50), <<>>), Num(50))
  /\ effectDeps = depsOf(useMemoStats(seed, Num(50), <<>>), <<>>, TRUE)
  /\ pending = {"clear", "writeBack"}
  /\ dirty = FALSE
  /\ loadState = "reading"
  /\ nextId = 0
  /\ edits = 0
  /\ lastEdit = "mount"
  /\ effectWrites = 0
  /\ writeBackRuns = 0
  /\ solved = {}
  /\ OffScreenIdle

Render ==
  /\ dirty
  /\ pending = {}
  /\ memo' = useMemoStats(items, targetPass, finalSubjectGrade)
  /\ passCard' = passCardOutcome(memo', targetPass)
  /\ effectDeps' = depsOf(memo', finalSubjectGrade, autoCalcExamFromFinal)
  /\ pending' = {e \in {"clear", "writeBack"} : effectDeps'[e] # effectDeps[e]}
  /\ dirty' = FALSE
  /\ UNCHANGED << items, targetPass, finalSubjectGrade, autoCalcExamFromFinal,
                  finalGradeShowRangeWarning, loadState, nextId, edits,
                  lastEdit, effectWrites, writeBackRuns, solved, offScreen >>

\* --- the updaters passed to setItems ---
\* prev.map((it) => (it.id === id ? { ...it, ...patch } : it))
SetField(it, field, value) == [it EXCEPT ![field] = value]

updateItemUpdater(prev, id, field, value) ==
  [k \in 1..Len(prev) |-> IF prev[k].id = id THEN SetField(prev[k], field, value) ELSE prev[k]]

\* prev.filter((it) => it.id !== id)
RECURSIVE removeItemUpdater(_, _)
removeItemUpdater(prev, id) ==
  IF prev = <<>> THEN <<>>
  ELSE IF Head(prev).id # id
       THEN <<Head(prev)>> \o removeItemUpdater(Tail(prev), id)
       ELSE removeItemUpdater(Tail(prev), id)

\* the updater of toggleAutoCalc and of the clear effect: empty the grade of
\* the first Exam item, or return prev itself
\* variant: the grade of every Exam item is cleared
clearEveryExamGradeUpdater(prev) ==
  [k \in 1..Len(prev) |->
     IF prev[k].type = "Exam" THEN [prev[k] EXCEPT !.grade = <<>>] ELSE prev[k]]

clearExamGradeUpdater(prev) ==
  LET idx == findExamIdx(prev)
  IN  IF idx < 0 THEN prev
      ELSE IF (IF prev[idx + 1].grade = Undefined THEN <<>> ELSE prev[idx + 1].grade) = <<>>
           THEN prev
           ELSE [prev EXCEPT ![idx + 1].grade = <<>>]

\* variant: an Exam grade that is present is never rewritten
writeBackUpdaterKeepingGrade(prev, required, examIdx) ==
  IF examIdx + 1 > Len(prev) THEN prev
  ELSE LET current      == prev[examIdx + 1]
           currentGrade == IF current.grade = Undefined THEN <<>> ELSE current.grade
       IN  IF currentGrade # <<>> THEN prev
           ELSE [prev EXCEPT ![examIdx + 1].grade = toFixed1(clamp100(required))]

\* the updater of the write-back effect, closed over the render's
\* requiredExamToHitFinal and examIdx
writeBackUpdater(prev, required, examIdx) ==
  IF examIdx + 1 > Len(prev) THEN prev
  ELSE LET current      == prev[examIdx + 1]
           currentGrade == IF current.grade = Undefined THEN <<>> ELSE current.grade
           currentNum   == IF currentGrade = <<>> THEN Null
                           ELSE clamp100(toNum(currentGrade))
           nextNum      == clamp100(required)
       IN  IF currentNum # Null /\ approxEqual(currentNum, nextNum) THEN prev
           ELSE [prev EXCEPT ![examIdx + 1].grade = toFixed1(nextNum)]

\* --- effects ---
\* items whose grade an action left as it was keep their provenance
KeepSolved(before, after) ==
  {id \in solved :
     \E j \in 1..Len(before), k \in 1..Len(after) :
        before[j].id = id /\ after[k].id = id /\ after[k].grade = before[j].grade}

CountWrite(changed) ==
  IF changed /\ effectWrites < WritesCap THEN effectWrites + 1 ELSE effectWrites

\* useEffect(..., [finalSubjectGrade, autoCalcExamFromFinal]): the final grade
\* field is empty while auto-calc is on
ClearExamEffect ==
  /\ "clear" \in pending
  /\ LET next == IF ~autoCalcExamFromFinal THEN items
                 ELSE IF Trim(finalSubjectGrade) # <<>> THEN items
                 ELSE clearExamGradeUpdater(items)
     IN  /\ items' = next
         /\ dirty' = (dirty \/ next # items)
         /\ effectWrites' = CountWrite(next # items)
         /\ solved' = KeepSolved(items, next)
  /\ pending' = pending \ {"clear"}
  /\ UNCHANGED << targetPass, finalSubjectGrade, autoCalcExamFromFinal,
                  finalGradeShowRangeWarning, memo, passCard, effectDeps, loadState,
                  nextId, edits, lastEdit, writeBackRuns, offScreen >>

\* useEffect(..., [autoCalcExamFromFinal, canAutoCalcExam, requiredExamToHitFinal,
\* examIdx]): the auto-calc write-back
writeBackEffectBody(prev, auto, m) ==
  IF ~auto THEN prev
  ELSE IF ~m.canAutoCalcExam THEN prev
  ELSE IF m.requiredExamToHitFinal = Null THEN prev
  ELSE IF m.examIdx < 0 THEN prev
  ELSE writeBackUpdater(prev, m.requiredExamToHitFinal, m.examIdx)

WriteBackEffect ==
  /\ "writeBack" \in pending
  /\ "clear" \notin pending
  /\ LET next == writeBackEffectBody(items, autoCalcExamFromFinal, memo)
     IN  /\ items' = next
         /\ dirty' = (dirty \/ next # items)
         /\ effectWrites' = CountWrite(next # items)
         /\ solved' = IF next # items
                      THEN KeepSolved(items, next) \cup {next[memo.examIdx + 1].id}
                      ELSE solved
  /\ pending' = pending \ {"writeBack"}
  /\ writeBackRuns' = IF writeBackRuns < WritesCap THEN writeBackRuns + 1 ELSE writeBackRuns
  /\ UNCHANGED << targetPass, finalSubjectGrade, autoCalcExamFromFinal,
                  finalGradeShowRangeWarning, memo, passCard, effectDeps, loadState,
                  nextId, edits, lastEdit, offScreen >>

\* the load effect's storage read completes: setItems, setTargetPass,
\* setFinalSubjectGrade, setAutoCalcExamFromFinal from the stored planner
LoadSaved ==
  /\ loadState = "reading"
  /\ Quiescent
  /\ loadState' = "done"
  /\ \/ UNCHANGED << items, targetPass, finalSubjectGrade, autoCalcExamFromFinal,
                     dirty, solved >>
     \/ \E parsed \in SavedPlanners :
          /\ items' = parsed.items
          /\ targetPass' = parsed.targetPass
          /\ finalSubjectGrade' = parsed.finalSubjectGrade
          /\ autoCalcExamFromFinal' = parsed.autoCalcExamFromFinal
          /\ dirty' = TRUE
          /\ solved' = parsed.solvedIds
  /\ lastEdit' = "load"
  /\ effectWrites' = 0
  /\ writeBackRuns' = 0
  /\ UNCHANGED << finalGradeShowRangeWarning, memo, passCard, effectDeps, pending,
                  nextId, edits, offScreen >>

\* --- handlers: each runs to completion between two renders ---
Handled(kind) ==
  /\ Quiescent
  /\ edits < MaxEdits
  /\ edits' = edits + 1
  /\ dirty' = TRUE
  /\ lastEdit' = kind
  /\ effectWrites' = 0
  /\ writeBackRuns' = 0
  /\ UNCHANGED << memo, passCard, effectDeps, pending, loadState, offScreen >>

SetItems(next) ==
  /\ items' = next
  /\ solved' = KeepSolved(items, next)

\* updateItem(id, patch)
updateItem(id, field, value, kind) ==
  /\ Handled(kind)
  /\ SetItems(updateItemUpdater(items, id, field, value))
  /\ UNCHANGED << targetPass, finalSubjectGrade, autoCalcExamFromFinal,
                  finalGradeShowRangeWarning, nextId >>

GradeEditKind(id) ==
  IF items[IndexOfId(id)].type = "Exam" THEN "examGrade" ELSE "otherGrade"

\* Grade % field: onChangeText
EditGrade ==
  \E id \in ItemIds, t \in TypedGrades :
     updateItem(id, "grade", KeepDigitsAndDots(t), GradeEditKind(id))

\* Weight % field: onChangeText
EditWeight ==
  \E id \in ItemIds, t \in TypedWeights :
     updateItem(id, "weight", KeepDigitsAndDots(t), "misc")

\* type chip: onPress
EditType ==
  \E id \in ItemIds, kind \in Kinds : updateItem(id, "type", kind, "misc")

\* hurdle chip: onPress
EditHurdle ==
  \E id \in ItemIds :
     updateItem(id, "hurdle", ~items[IndexOfId(id)].hurdle, "misc")

\* clearItemGrade(id)
clearItemGrade ==
  \E id \in ItemIds :
     /\ Handled(GradeEditKind(id))
     /\ SetItems(updateItemUpdater(items, id, "grade", <<>>))
     /\ UNCHANGED << targetPass, finalSubjectGrade, autoCalcExamFromFinal,
                     finalGradeShowRangeWarning, nextId >>

\* clearItemDueDate(id); the button is disabled while there is no due date
clearItemDueDate ==
  \E id \in ItemIds :
     /\ items[IndexOfId(id)].dueDateISO # Undefined
     /\ Handled("misc")
     /\ SetItems(updateItemUpdater(items, id, "dueDateISO", Undefined))
     /\ UNCHANGED << targetPass, finalSubjectGrade, autoCalcExamFromFinal,
                     finalGradeShowRangeWarning, nextId >>

\* removeItem(id)
removeItem ==
  \E id \in ItemIds :
     /\ Handled("misc")
     /\ SetItems(removeItemUpdater(items, id))
     /\ UNCHANGED << targetPass, finalSubjectGrade, autoCalcExamFromFinal,
                     finalGradeShowRangeWarning, nextId >>

\* what the add form submits: a name and a weight are required
AddPayloads ==
  { [name |-> "Final", weight |-> <<"5", "0">>, grade |-> <<>>, type |-> "Exam",
     hurdle |-> TRUE, dueDateISO |-> Undefined] }

\* AddForm submit -> addItem(newItem)
addItem ==
  \E a \in AddPayloads :
     /\ a.name # "" /\ Trim(a.weight) # <<>>
     /\ Handled("misc")
     /\ SetItems(Append(items,
                   Item(ToString(nextId + 1), a.name, KeepDigitsAndDots(a.weight),
                        KeepDigitsAndDots(a.grade), a.type, a.hurdle, a.dueDateISO)))
     /\ nextId' = nextId + 1
     /\ UNCHANGED << targetPass, finalSubjectGrade, autoCalcExamFromFinal,
                     finalGradeShowRangeWarning >>

\* handleReorder(data): the list hands back the same items in the dragged order
handleReorder ==
  \E p \in [1..Len(items) -> 1..Len(items)] :
     /\ \A j, k \in 1..Len(items) : p[j] = p[k] => j = k
     /\ \E k \in 1..Len(items) : p[k] # k
     /\ Handled("reorder")
     /\ SetItems([k \in 1..Len(items) |-> items[p[k]]])
     /\ UNCHANGED << targetPass, finalSubjectGrade, autoCalcExamFromFinal,
                     finalGradeShowRangeWarning, nextId >>

\* toggleAutoCalc()
toggleAutoCalc ==
  /\ Handled("toggle")
  /\ IF autoCalcExamFromFinal
     THEN /\ autoCalcExamFromFinal' = FALSE
          /\ SetItems(clearExamGradeUpdater(items))
     ELSE /\ autoCalcExamFromFinal' = TRUE
          /\ UNCHANGED << items, solved >>
  /\ UNCHANGED << targetPass, finalSubjectGrade, finalGradeShowRangeWarning, nextId >>

\* Pass mark field: onChangeText
EditTargetPass ==
  \E t \in TypedTargets :
     /\ Handled("misc")
     /\ targetPass' = clamp100(toNum(KeepDigitsAndDots(t)))
     /\ UNCHANGED << items, solved, finalSubjectGrade, autoCalcExamFromFinal,
                     finalGradeShowRangeWarning, nextId >>

\* Pass mark field: onClear (enabled while targetPass !== 50)
ClearTargetPass ==
  /\ targetPass # Num(50)
  /\ Handled("misc")
  /\ targetPass' = Num(50)
  /\ UNCHANGED << items, solved, finalSubjectGrade, autoCalcExamFromFinal,
                  finalGradeShowRangeWarning, nextId >>

\* Final subject grade field: onChangeText
EditFinalSubjectGrade ==
  \E t \in TypedFinals :
     /\ Handled("final")
     /\ finalGradeShowRangeWarning' = FALSE
     /\ finalSubjectGrade' = KeepDigitsAndDots(t)
     /\ UNCHANGED << items, solved, targetPass, autoCalcExamFromFinal, nextId >>

\* Final subject grade field: onClear (enabled while the field is not empty)
ClearFinalSubjectGrade ==
  /\ Trim(finalSubjectGrade) # <<>>
  /\ Handled("final")
  /\ finalGradeShowRangeWarning' = FALSE
  /\ finalSubjectGrade' = <<>>
  /\ UNCHANGED << items, solved, targetPass, autoCalcExamFromFinal, nextId >>

Next ==
  \/ Render
  \/ ClearExamEffect
  \/ WriteBackEffect
  \/ LoadSaved
  \/ EditGrade
  \/ EditWeight
  \/ EditType
  \/ EditHurdle
  \/ clearItemGrade
  \/ clearItemDueDate
  \/ removeItem
  \/ addItem
  \/ handleReorder
  \/ toggleAutoCalc
  \/ EditTargetPass
  \/ ClearTargetPass
  \/ EditFinalSubjectGrade
  \/ ClearFinalSubjectGrade

Spec == Init /\ [][Next]_vars

\* ------------------------------------------------------------------------
\* The session with the focus events of the final subject grade field
\* ------------------------------------------------------------------------
\* Final subject grade field: onFocus
FocusFinalSubjectGrade ==
  /\ Handled("finalFocus")
  /\ finalGradeShowRangeWarning' = FALSE
  /\ UNCHANGED << items, solved, targetPass, finalSubjectGrade, autoCalcExamFromFinal,
                  nextId >>

\* Final subject grade field: onBlur
BlurFinalSubjectGrade ==
  /\ Handled("finalBlur")
  /\ finalGradeShowRangeWarning' = TRUE
  /\ UNCHANGED << items, solved, targetPass, finalSubjectGrade, autoCalcExamFromFinal,
                  nextId >>

NextField == Next \/ FocusFinalSubjectGrade \/ BlurFinalSubjectGrade

SpecField == Init /\ [][NextField]_vars

\* ------------------------------------------------------------------------
\* The screen with its storage: load, persist and final-mark effects
\* ------------------------------------------------------------------------
\* --- JSON values and the texts AsyncStorage holds ---
JNull == [t |-> "null", v |-> <<>>]

JStr(s) == [t |-> "string", v |-> s]

JNum(x) == [t |-> "number", v |-> x]

JBool(b) == [t |-> "boolean", v |-> b]

JArr(a) == [t |-> "array", v |-> a]

JObj(f) == [t |-> "object", v |-> f]

\* a stored text that is JSON, and one that JSON.parse rejects
Text(j) == [raw |-> "text", json |-> j]

BadText == [raw |-> "malformed", json |-> <<>>]

\* getItem rejected
Rejected == [raw |-> "rejected", json |-> <<>>]

ItemKeys == {"id", "name", "weight", "grade", "type", "hurdle", "dueDateISO"}

\* the optional keys of an item that the screen leaves undefined
OptionalKeys == {"grade", "dueDateISO"}

\* JSON.stringify of an item: a key whose value is undefined is left out
stringifyItem(it) ==
  JObj([k \in {key \in ItemKeys : key \in OptionalKeys => it[key] # Undefined} |->
          IF k = "hurdle" THEN JBool(it[k]) ELSE JStr(it[k])])

\* variant: the toggle is not written
stringifyPlannerWithoutToggle(its, target, final, auto) ==
  Text(JObj([items |-> JArr([k \in 1..Len(its) |-> stringifyItem(its[k])]),
             targetPass |-> IF target = Null THEN JNull ELSE JNum(target),
             finalSubjectGrade |-> JStr(final)]))

\* JSON.stringify({ items, targetPass, finalSubjectGrade, autoCalcExamFromFinal });
\* a number that is not finite is written as null
stringifyPlanner(its, target, final, auto) ==
  Text(JObj([items |-> JArr([k \in 1..Len(its) |-> stringifyItem(its[k])]),
             targetPass |-> IF target = Null THEN JNull ELSE JNum(target),
             finalSubjectGrade |-> JStr(final),
             autoCalcExamFromFinal |-> JBool(auto)]))

\* an item object as the screen reads it: an absent key reads as undefined
itemFromJson(j) ==
  [k \in ItemKeys |-> IF k \in DOMAIN j.v THEN j.v[k].v ELSE Undefined]

HasKey(j, k) == j.t = "object" /\ k \in DOMAIN j.v

\* the body of the load effect after the read: what it sets, given the text read
loadedPlanner(raw, cur) ==
  IF raw.raw # "text" THEN cur
  ELSE LET parsed == raw.json
       IN  IF parsed.t = "null" THEN cur
           ELSE LET a == IF HasKey(parsed, "items") /\ parsed.v["items"].t = "array"
                         THEN [cur EXCEPT !.items =
                                 [k \in 1..Len(parsed.v["items"].v) |->
                                    itemFromJson(parsed.v["items"].v[k])],
                               !.set = TRUE]
                         ELSE cur
                    b == IF HasKey(parsed, "targetPass") /\ parsed.v["targetPass"].t = "number"
                         THEN [a EXCEPT !.targetPass = parsed.v["targetPass"].v, !.set = TRUE]
                         ELSE a
                    c == IF HasKey(parsed, "finalSubjectGrade")
                            /\ parsed.v["finalSubjectGrade"].t = "string"
                         THEN [b EXCEPT !.finalSubjectGrade = parsed.v["finalSubjectGrade"].v,
                                        !.set = TRUE]
                         ELSE b
                IN  IF HasKey(parsed, "autoCalcExamFromFinal")
                       /\ parsed.v["autoCalcExamFromFinal"].t = "boolean"
                    THEN [c EXCEPT !.autoCalcExamFromFinal = parsed.v["autoCalcExamFromFinal"].v,
                                   !.set = TRUE]
                    ELSE c

\* the hooks the load effect sets, as one record
PlannerState ==
  [items |-> items, targetPass |-> targetPass, finalSubjectGrade |-> finalSubjectGrade,
   autoCalcExamFromFinal |-> autoCalcExamFromFinal, set |-> FALSE]

\* --- the subjects list ---
\* code = decodeURIComponent(subject).toUpperCase()
code == "ABC101"

\* s.toUpperCase() on the codes that occur
toUpperCase(c) == IF c = "abc101" THEN "ABC101" ELSE c

Subject(c, name) == JObj([code |-> JStr(c), name |-> JStr(name)])

WithMark(s, mark) ==
  JObj([k \in DOMAIN s.v \cup {"finalMark"} |-> IF k = "finalMark" THEN JNum(mark) ELSE s.v[k]])

WithoutMark(s) == JObj([k \in DOMAIN s.v \ {"finalMark"} |-> s.v[k]])

\* variant: the mark is written into every entry of the list
upsertEveryEntry(list, finalMark) ==
  [k \in 1..Len(list) |->
     IF finalMark # Null THEN WithMark(list[k], finalMark) ELSE WithoutMark(list[k])]

\* list.map(...) of upsertFinalMarkForSubject; finalMark = Null stands for undefined
upsertEntry(list, finalMark) ==
  [k \in 1..Len(list) |->
     LET s     == list[k]
         sCode == toUpperCase(IF HasKey(s, "code") THEN s.v["code"].v ELSE "")
     IN  IF sCode # toUpperCase(code) THEN s
         ELSE IF finalMark # Null THEN WithMark(s, finalMark)
         ELSE WithoutMark(s)]

\* subjects lists the home screen may have stored
SubjectsLists ==
  << << WithMark(Subject("ABC101", "Algorithms"), Num(88)),
        WithMark(Subject("XYZ200", "Statistics"), Num(65)) >>,
     << Subject("XYZ200", "Statistics"),
        Subject("abc101", "Algorithms") >> >>

\* a planner an earlier session persisted with every item graded, no final
\* subject grade and the toggle off
GradedPlanner ==
  [items |-> << Item("a1", "Assignment 1", <<"5", "0">>, <<"8", "0">>, "Assignment",
                     FALSE, Undefined),
                Item("exam", "Exam", <<"5", "0">>, <<"7", "0">>, "Exam",
                     FALSE, Undefined) >>,
   targetPass |-> Num(50),
   finalSubjectGrade |-> <<>>,
   autoCalcExamFromFinal |-> FALSE,
   solvedIds |-> {}]

\* a planner an earlier session persisted after the user had typed 80 over
\* the solved Exam grade
OvertypedPlanner ==
  [items |-> << Item("a2", "Assignment 2", <<"5", "0">>, <<"8", "0">>, "Assignment",
                     TRUE, Undefined),
                Item("exam", "Exam", <<"5", "0">>, <<"8", "0">>, "Exam",
                     FALSE, <<"2", "0", "2", "6", "-", "1", "1", "-", "2", "0">>) >>,
   targetPass |-> Num(50),
   finalSubjectGrade |-> <<"7", "0">>,
   autoCalcExamFromFinal |-> TRUE,
   solvedIds |-> {}]

\* the planner states an earlier session may have persisted
StoredStates == SavedPlanners \cup { GradedPlanner, OvertypedPlanner }

\* what an earlier session may have left under the planner key
StoredPlanners(sp) ==
  << NoText, BadText, Text(JNull),
     stringifyPlanner(sp.items, sp.targetPass, sp.finalSubjectGrade,
                      sp.autoCalcExamFromFinal) >>

\* number of edits the user makes in a session with storage
MaxStoreEdits == 1

\* --- the effects ---
\* variant: the final-mark effect does not depend on the final subject grade
storeDepsOfWithoutManual(m) ==
  [persist   |-> <<items, targetPass, finalSubjectGrade, autoCalcExamFromFinal>>,
   finalMark |-> <<isPerfectOf(m), m.remainingWeight, m.anyHurdleFailed, m.finalMin>>]

\* the dependency arrays of the persist effect (STORAGE_KEY and code are fixed)
\* and of the final-mark effect
storeDepsOf(m) ==
  [persist   |-> <<items, targetPass, finalSubjectGrade, autoCalcExamFromFinal>>,
   finalMark |-> <<m.finalGradeNumeric, isPerfectOf(m), m.remainingWeight,
                   m.anyHurdleFailed, m.finalMin>>]

\* the screen is mounted: the first render has run on the seed and every
\* effect is scheduled
InitStore ==
  /\ items = seed
  /\ targetPass = Num(50)
  /\ finalSubjectGrade = <<>>
  /\ autoCalcExamFromFinal = TRUE
  /\ finalGradeShowRangeWarning = FALSE
  /\ memo = useMemoStats(seed, Num(50), <<>>)
  /\ passCard = passCardOutcome(useMemoStats(seed, Num(50), <<>>), Num(50))
  /\ effectDeps = depsOf(useMemoStats(seed, Num(50), <<>>), <<>>, TRUE)
  /\ pending = {"clear", "writeBack"}
  /\ dirty = FALSE
  /\ loadState = "reading"
  /\ nextId = 0
  /\ edits = 0
  /\ lastEdit = "mount"
  /\ effectWrites = 0
  /\ writeBackRuns = 0
  /\ solved = {}
  /\ \E sp \in StoredStates, j \in 1..4, k \in 1..2 :
        /\ storage = [planner |-> StoredPlanners(sp)[j],
                      subjects |-> Text(JArr(SubjectsLists[k]))]
        /\ openedOn = storage
  /\ requests = <<>>
  /\ replies = <<>>
  /\ TimerIdle
  /\ storePending = {"load", "persist", "finalMark"}
  /\ storeDeps = storeDepsOf(useMemoStats(seed, Num(50), <<>>))

\* a render of the screen: the memo and all five effects' dependencies
StoreRender ==
  /\ dirty
  /\ pending = {}
  /\ storePending = {}
  /\ memo' = useMemoStats(items, targetPass, finalSubjectGrade)
  /\ passCard' = passCardOutcome(memo', targetPass)
  /\ effectDeps' = depsOf(memo', finalSubjectGrade, autoCalcExamFromFinal)
  /\ pending' = {e \in {"clear", "writeBack"} : effectDeps'[e] # effectDeps[e]}
  /\ storeDeps' = storeDepsOf(memo')
  /\ storePending' = {e \in {"persist", "finalMark"} : storeDeps'[e] # storeDeps[e]}
  /\ dirty' = FALSE
  /\ UNCHANGED << items, targetPass, finalSubjectGrade, autoCalcExamFromFinal,
                  finalGradeShowRangeWarning, loadState, nextId, edits,
                  lastEdit, effectWrites, writeBackRuns, solved,
                  storage, requests, replies, openedOn, timerVars >>

\* what an effect or a continuation leaves alone besides the storage calls
PlannerUntouched ==
  UNCHANGED << items, targetPass, finalSubjectGrade, autoCalcExamFromFinal,
               finalGradeShowRangeWarning, memo, passCard, effectDeps, pending, dirty,
               loadState, nextId, edits, lastEdit, effectWrites, writeBackRuns, solved,
               timerVars >>

\* the load effect: AsyncStorage.getItem(STORAGE_KEY)
LoadEffect ==
  /\ "load" \in storePending
  /\ requests' = Append(requests, [op |-> "getItem", key |-> "planner", for |-> "load",
                                   value |-> NoText, finalMark |-> Null])
  /\ storePending' = storePending \ {"load"}
  /\ PlannerUntouched
  /\ UNCHANGED << storage, replies, storeDeps, openedOn >>

\* the persist effect: AsyncStorage.setItem(STORAGE_KEY, JSON.stringify({...}))
PersistEffect ==
  /\ "persist" \in storePending
  /\ "load" \notin storePending
  /\ requests' = Append(requests,
                   [op |-> "setItem", key |-> "planner", for |-> "persist",
                    value |-> stringifyPlanner(items, targetPass, finalSubjectGrade,
                                               autoCalcExamFromFinal),
                    finalMark |-> Null])
  /\ storePending' = storePending \ {"persist"}
  /\ PlannerUntouched
  /\ UNCHANGED << storage, replies, storeDeps, openedOn >>

\* the clear and write-back effects come after the persist effect
ItemEffects ==
  /\ storePending \cap {"load", "persist"} = {}
  /\ (ClearExamEffect \/ WriteBackEffect)

\* the mark the final-mark effect publishes: Null stands for undefined
finalMarkOf(m) ==
  IF m.finalGradeNumeric # Null THEN clamp100(m.finalGradeNumeric)
  ELSE IF isPerfectOf(m) /\ RLe(m.remainingWeight, Rat(1, 100)) /\ ~m.anyHurdleFailed
       THEN clamp100(m.finalMin)
  ELSE Null

\* the final-mark effect: upsertFinalMarkForSubject up to its first await
FinalMarkEffect ==
  /\ "finalMark" \in storePending
  /\ storePending \cap {"load", "persist"} = {}
  /\ pending = {}
  /\ requests' = Append(requests, [op |-> "getItem", key |-> "subjects", for |-> "upsert",
                                   value |-> NoText, finalMark |-> finalMarkOf(memo)])
  /\ storePending' = storePending \ {"finalMark"}
  /\ PlannerUntouched
  /\ UNCHANGED << storage, replies, storeDeps, openedOn >>

\* --- AsyncStorage serves the calls in the order they were made ---
Serve ==
  /\ requests # <<>>
  /\ LET r == Head(requests)
     IN  IF r.op = "setItem"
         THEN /\ storage' = [storage EXCEPT ![r.key] = r.value]
              /\ UNCHANGED replies
         ELSE /\ replies' = Append(replies, [r EXCEPT !.value = storage[r.key]])
              /\ UNCHANGED storage
  /\ requests' = Tail(requests)
  /\ PlannerUntouched
  /\ UNCHANGED << storePending, storeDeps, openedOn >>

\* the read of the load effect fails: getItem rejects
ServeFailedRead ==
  /\ requests # <<>>
  /\ Head(requests).for = "load"
  /\ replies' = Append(replies, [Head(requests) EXCEPT !.value = Rejected])
  /\ requests' = Tail(requests)
  /\ PlannerUntouched
  /\ UNCHANGED << storage, storePending, storeDeps, openedOn >>

\* the load effect resumes after its await
ResumeLoad ==
  /\ replies # <<>>
  /\ Head(replies).for = "load"
  /\ Quiescent /\ storePending = {}
  /\ LET next == loadedPlanner(Head(replies).value, PlannerState)
     IN  /\ items' = next.items
         /\ targetPass' = next.targetPass
         /\ finalSubjectGrade' = next.finalSubjectGrade
         /\ autoCalcExamFromFinal' = next.autoCalcExamFromFinal
         /\ dirty' = next.set
  /\ replies' = Tail(replies)
  /\ loadState' = "done"
  /\ lastEdit' = "load"
  /\ effectWrites' = 0
  /\ writeBackRuns' = 0
  /\ solved' = {}
  /\ UNCHANGED << finalGradeShowRangeWarning, memo, passCard, effectDeps, pending,
                  nextId, edits, storage, requests, storePending, storeDeps, openedOn,
                  timerVars >>

\* upsertFinalMarkForSubject resumes after its await: map the list, setItem
ResumeUpsert ==
  /\ replies # <<>>
  /\ Head(replies).for = "upsert"
  /\ Quiescent /\ storePending = {}
  /\ LET r == Head(replies)
     IN  requests' =
           IF r.value.raw = "malformed" THEN requests
           ELSE Append(requests,
                  [op |-> "setItem", key |-> "subjects", for |-> "upsert",
                   value |-> Text(JArr(upsertEntry(
                                IF r.value.raw = "text" THEN r.value.json.v ELSE <<>>,
                                r.finalMark))),
                   finalMark |-> Null])
  /\ replies' = Tail(replies)
  /\ PlannerUntouched
  /\ UNCHANGED << storage, storePending, storeDeps, openedOn >>

\* the handlers of the session, once the effects of the last render have run
StoreHandlers ==
  /\ storePending = {}
  /\ edits < MaxStoreEdits
  /\ \/ EditGrade
     \/ EditHurdle
     \/ toggleAutoCalc
     \/ EditTargetPass
     \/ EditFinalSubjectGrade
     \/ ClearFinalSubjectGrade

NextStore ==
  \/ StoreRender
  \/ LoadEffect
  \/ PersistEffect
  \/ ItemEffects
  \/ FinalMarkEffect
  \/ Serve
  \/ ResumeLoad
  \/ ResumeUpsert
  \/ StoreHandlers

SpecStore == InitStore /\ [][NextStore]_vars

\* the same with a storage whose reads can fail
NextFaulty == NextStore \/ ServeFailedRead

SpecFaulty == InitStore /\ [][NextFaulty]_vars

\* ------------------------------------------------------------------------
\* The pomodoro screen: countdown, intervals, alerts and the session log
\* ------------------------------------------------------------------------
\* the planner screen is not touched by the pomodoro screen
plannerVars ==
  << items, targetPass, finalSubjectGrade, autoCalcExamFromFinal,
     finalGradeShowRangeWarning, memo, passCard, effectDeps, pending, dirty,
     loadState, nextId, edits, lastEdit, effectWrites, writeBackRuns, solved >>

\* number of presses of Start, Pause and Reset and of edits of the minutes
\* fields in a session
MaxPresses == 2

\* number of setInterval calls in a session
MaxStarts == 3

\* number of countdowns that reach zero in a session
MaxCompletions == 3

\* what the user types into the minutes fields, after numOnly
TypedMinutes == { 1 }

\* the session logs a previous session may have stored: none, or a full log
\* of 200 entries
LogEntry(id, minutes) == [id |-> id, minutes |-> minutes]

StoredLogs ==
  << <<>>,
     [k \in 1..200 |-> LogEntry(0 - k, 25)] >>

\* clampToMinute on a field holding the digits of n (0 for the empty field)
clampToMinute(n) == IF n <= 0 THEN 1 ELSE n

\* what the functions created by a render close over
Closure ==
  [running |-> running, expired |-> remainingSec <= 0, onBreak |-> onBreak, log |-> log,
   studyMin |-> studyMin, breakMin |-> breakMin]

\* what setInterval registers in start: the callback closes over the render
\* whose start was called
startedInterval(cl) == [id |-> made + 1, cl |-> cl]

\* [entry, ...log].slice(0, 200)
nextLog(entry, l) == SubSeq(<<entry>> \o l, 1, IF Len(l) + 1 > 200 THEN 200 ELSE Len(l) + 1)

\* clearInterval(timerRef.current)
cleared == { i \in intervals : i.id # timerRef }

\* the pomodoro screen is mounted; loadLog awaits its read of the stored log
InitPomodoro ==
  /\ items = seed
  /\ targetPass = Num(50)
  /\ finalSubjectGrade = <<>>
  /\ autoCalcExamFromFinal = TRUE
  /\ finalGradeShowRangeWarning = FALSE
  /\ memo = useMemoStats(seed, Num(50), <<>>)
  /\ passCard = passCardOutcome(useMemoStats(seed, Num(50), <<>>), Num(50))
  /\ effectDeps = depsOf(useMemoStats(seed, Num(50), <<>>), <<>>, TRUE)
  /\ pending = {}
  /\ dirty = FALSE
  /\ loadState = "done"
  /\ nextId = 0
  /\ edits = 0
  /\ lastEdit = "mount"
  /\ effectWrites = 0
  /\ writeBackRuns = 0
  /\ solved = {}
  /\ StoreIdle
  /\ openedOn = storage
  /\ studyMin = 25
  /\ breakMin = 5
  /\ remainingSec = 25 * 60
  /\ running = FALSE
  /\ onBreak = FALSE
  /\ log = <<>>
  /\ timerRef = 0
  /\ justLoggedRef = {}
  /\ onBreakRef = FALSE
  /\ intervals = {}
  /\ alerts = <<>>
  /\ shown = [running |-> FALSE, expired |-> FALSE, onBreak |-> FALSE, log |-> <<>>,
              studyMin |-> 25, breakMin |-> 5]
  /\ stale = FALSE
  /\ \E k \in 1..2 : logStore = StoredLogs[k]
  /\ logLoaded = FALSE
  /\ made = 0
  /\ completions = 0
  /\ presses = 0

\* loadLog resumes after its read: setLog(raw ? JSON.parse(raw) : [])
loadLog ==
  /\ ~logLoaded
  /\ ~stale
  /\ log' = logStore
  /\ logLoaded' = TRUE
  /\ stale' = TRUE
  /\ UNCHANGED << studyMin, breakMin, remainingSec, running, onBreak, timerRef,
                  justLoggedRef, onBreakRef, intervals, alerts, shown, logStore,
                  made, completions, presses, plannerVars, storeVars >>

\* a render, followed by its effects: onBreakRef.current = onBreak on
\* [onBreak]; if (!running) resetPhase(onBreak) on [studyMin, breakMin]
PomodoroRender ==
  /\ stale
  /\ shown' = Closure
  /\ LET minutesChanged == studyMin # shown.studyMin \/ breakMin # shown.breakMin
         phase == clampToMinute(IF onBreak THEN breakMin ELSE studyMin) * 60
     IN  IF minutesChanged /\ ~running
         THEN /\ remainingSec' = phase
              /\ onBreakRef' = onBreak
              /\ stale' = (phase # remainingSec)
         ELSE /\ onBreakRef' = IF onBreak # shown.onBreak THEN onBreak ELSE onBreakRef
              /\ stale' = FALSE
              /\ UNCHANGED remainingSec
  /\ UNCHANGED << studyMin, breakMin, running, onBreak, log, timerRef, justLoggedRef,
                  intervals, alerts, logStore, logLoaded, made, completions,
                  presses, plannerVars, storeVars >>

\* the user can press: the log has loaded, the last render is on screen and
\* no alert covers it
CanPress == logLoaded /\ ~stale /\ alerts = <<>> /\ presses < MaxPresses

\* onChangeText of the study minutes field
EditStudyMin ==
  /\ CanPress
  /\ \E n \in TypedMinutes : n # studyMin /\ studyMin' = n
  /\ stale' = TRUE
  /\ presses' = presses + 1
  /\ UNCHANGED << breakMin, remainingSec, running, onBreak, log, timerRef, justLoggedRef,
                  onBreakRef, intervals, alerts, shown, logStore, logLoaded, made,
                  completions, plannerVars, storeVars >>

\* onChangeText of the break minutes field
EditBreakMin ==
  /\ CanPress
  /\ \E n \in TypedMinutes : n # breakMin /\ breakMin' = n
  /\ stale' = TRUE
  /\ presses' = presses + 1
  /\ UNCHANGED << studyMin, remainingSec, running, onBreak, log, timerRef, justLoggedRef,
                  onBreakRef, intervals, alerts, shown, logStore, logLoaded, made,
                  completions, plannerVars, storeVars >>

\* start() of the render cl, after the state set by its caller: phase is
\* the remainingSec, break the onBreak and ref the onBreakRef.current that
\* the caller leaves
start(cl, phase, break, ref) ==
  IF cl.running
  THEN /\ remainingSec' = phase
       /\ onBreak' = break
       /\ onBreakRef' = ref
       /\ UNCHANGED << running, timerRef, intervals, made >>
  ELSE /\ made < MaxStarts
       /\ IF cl.expired
          THEN /\ onBreak' = FALSE
               /\ onBreakRef' = FALSE
               /\ remainingSec' = clampToMinute(cl.studyMin) * 60
          ELSE /\ remainingSec' = phase
               /\ onBreak' = break
               /\ onBreakRef' = ref
       /\ running' = TRUE
       /\ intervals' = intervals \cup { startedInterval(cl) }
       /\ timerRef' = made + 1
       /\ made' = made + 1

\* the Start button of the render on screen
PressStart ==
  /\ CanPress
  /\ ~shown.running
  /\ start(shown, remainingSec, onBreak, onBreakRef)
  /\ stale' = TRUE
  /\ presses' = presses + 1
  /\ UNCHANGED << studyMin, breakMin, log, justLoggedRef, alerts, shown, logStore,
                  logLoaded, completions, plannerVars, storeVars >>

\* a second press of Start handled before the render that follows the first
PressStartAgain ==
  /\ logLoaded /\ alerts = <<>> /\ presses < MaxPresses
  /\ stale /\ running
  /\ ~shown.running
  /\ start(shown, remainingSec, onBreak, onBreakRef)
  /\ presses' = presses + 1
  /\ UNCHANGED << studyMin, breakMin, log, justLoggedRef, alerts, shown, stale, logStore,
                  logLoaded, completions, plannerVars, storeVars >>

\* the Pause button: stop()
PressPause ==
  /\ CanPress
  /\ shown.running
  /\ running' = FALSE
  /\ intervals' = cleared
  /\ timerRef' = 0
  /\ stale' = TRUE
  /\ presses' = presses + 1
  /\ UNCHANGED << studyMin, breakMin, remainingSec, onBreak, log, justLoggedRef,
                  onBreakRef, alerts, shown, logStore, logLoaded, made, completions,
                  plannerVars, storeVars >>

\* the Reset button: stop(); resetPhase(false)
PressReset ==
  /\ CanPress
  /\ running' = FALSE
  /\ intervals' = cleared
  /\ timerRef' = 0
  /\ onBreak' = FALSE
  /\ onBreakRef' = FALSE
  /\ remainingSec' = clampToMinute(shown.studyMin) * 60
  /\ stale' = TRUE
  /\ presses' = presses + 1
  /\ UNCHANGED << studyMin, breakMin, log, justLoggedRef, alerts, shown, logStore,
                  logLoaded, made, completions, plannerVars, storeVars >>

\* logFocusCompletion of the render cl, called by the interval i; recent is
\* Date.now() - justLoggedRef.current < 750
logFocusCompletion(i, recent) ==
  IF recent
  THEN UNCHANGED << log, logStore, justLoggedRef >>
  ELSE /\ log' = nextLog(LogEntry(completions + 1, clampToMinute(i.cl.studyMin)), i.cl.log)
       /\ logStore' = log'
       /\ justLoggedRef' = { j.id : j \in cleared } \ { i.id }

\* the callback of the interval i: setRemainingSec((prev) => ...)
Tick ==
  /\ ~stale
  /\ \E i \in intervals :
       IF remainingSec <= 1
       THEN /\ completions < MaxCompletions
            /\ completions' = completions + 1
            /\ running' = FALSE
            /\ intervals' = cleared
            /\ timerRef' = 0
            /\ remainingSec' = 0
            /\ IF ~onBreakRef
               THEN /\ \E recent \in (IF i.id \in justLoggedRef THEN BOOLEAN ELSE {FALSE}) :
                         logFocusCompletion(i, recent)
                    /\ alerts' = Append(alerts, [kind |-> "focusDone", cl |-> i.cl])
               ELSE /\ alerts' = Append(alerts, [kind |-> "breakDone", cl |-> i.cl])
                    /\ UNCHANGED << log, logStore >>
                    /\ justLoggedRef' = justLoggedRef \ { i.id }
            /\ stale' = TRUE
       ELSE /\ remainingSec' = remainingSec - 1
            /\ justLoggedRef' = justLoggedRef \ { i.id }
            /\ stale' = TRUE
            /\ UNCHANGED << running, log, timerRef, intervals, alerts, logStore,
                            completions >>
  /\ UNCHANGED << studyMin, breakMin, onBreak, onBreakRef, shown, logLoaded, made,
                  presses, plannerVars, storeVars >>

\* the first button of the alert on top: 'Start break' or 'Start focus'
AlertStart ==
  /\ alerts # <<>>
  /\ ~stale
  /\ LET a == Head(alerts)
     IN  IF a.kind = "focusDone"
         THEN start(a.cl, clampToMinute(a.cl.breakMin) * 60, TRUE, TRUE)
         ELSE start(a.cl, clampToMinute(a.cl.studyMin) * 60, FALSE, FALSE)
  /\ alerts' = Tail(alerts)
  /\ stale' = TRUE
  /\ UNCHANGED << studyMin, breakMin, log, justLoggedRef, shown, logStore, logLoaded,
                  completions, presses, plannerVars, storeVars >>

\* the second button of the alert on top: 'Skip break' or 'Skip focus'
AlertSkip ==
  /\ alerts # <<>>
  /\ ~stale
  /\ LET a == Head(alerts)
     IN  IF a.kind = "focusDone"
         THEN /\ onBreak' = FALSE
              /\ onBreakRef' = FALSE
              /\ remainingSec' = clampToMinute(a.cl.studyMin) * 60
         ELSE /\ onBreak' = TRUE
              /\ onBreakRef' = TRUE
              /\ remainingSec' = clampToMinute(a.cl.breakMin) * 60
  /\ alerts' = Tail(alerts)
  /\ stale' = TRUE
  /\ UNCHANGED << studyMin, breakMin, running, log, timerRef, justLoggedRef, intervals,
                  shown, logStore, logLoaded, made, completions, presses, plannerVars, storeVars >>

\* every press is handled after the render that follows the one before it
NextPomodoro ==
  \/ loadLog
  \/ PomodoroRender
  \/ EditStudyMin
  \/ EditBreakMin
  \/ PressStart
  \/ PressPause
  \/ PressReset
  \/ Tick
  \/ AlertStart
  \/ AlertSkip

SpecPomodoro == InitPomodoro /\ [][NextPomodoro]_vars

\* the same, with presses of Start that are handled before the render
NextPresses == NextPomodoro \/ PressStartAgain

SpecPresses == InitPomodoro /\ [][NextPresses]_vars

\* ------------------------------------------------------------------------
\* The computation core on its own: one render of an arbitrary planner
\* ------------------------------------------------------------------------
\* longest item list the core is rendered on
MaxCoreItems == 2

CoreWeights == { <<"5", "0">>, <<"0">> }

CoreGrades == { <<>>, <<"8", "0">>, <<"4", "0">>, <<"5", "0">> }

CoreKinds == { "Assignment", "Exam" }

CoreTargets == { Num(50), Num(70) }

CoreFinals == { <<>>, <<"7", "0">> }

CoreFields == [weight : CoreWeights, grade : CoreGrades, type : CoreKinds, hurdle : BOOLEAN]

CoreList(n, f) ==
  [k \in 1..n |-> Item(ToString(k), "Item", f[k].weight, f[k].grade, f[k].type,
                       f[k].hurdle, Undefined)]

\* nothing is rendered yet
InitCore ==
  /\ \E n \in 0..MaxCoreItems : \E f \in [1..n -> CoreFields] : items = CoreList(n, f)
  /\ targetPass \in CoreTargets
  /\ finalSubjectGrade \in CoreFinals
  /\ autoCalcExamFromFinal = TRUE
  /\ finalGradeShowRangeWarning = FALSE
  /\ memo = useMemoStats(<<>>, Num(50), <<>>)
  /\ passCard = "none"
  /\ effectDeps = depsOf(useMemoStats(<<>>, Num(50), <<>>), <<>>, TRUE)
  /\ pending = {}
  /\ dirty = TRUE
  /\ loadState = "done"
  /\ nextId = 0
  /\ edits = 0
  /\ lastEdit = "mount"
  /\ effectWrites = 0
  /\ writeBackRuns = 0
  /\ solved = {}
  /\ OffScreenIdle

NextCore == Render

SpecCore == InitCore /\ [][NextCore]_vars

\* ------------------------------------------------------------------------
\* The stats memo and the pass card over lists with uneven weights
\* ------------------------------------------------------------------------
RangeWeights == { <<"8", "0">>, <<"2", "0">>, <<"1", "0", "0">>,
                  <<"9", "9", ".", "9", "9", "5">> }

RangeGrades == { <<>>, <<"3", "0">>, <<"8", "5">> }

RangeTargets == { Num(50), Num(70) }

RangeFields == [weight : RangeWeights, grade : RangeGrades, hurdle : BOOLEAN]

RangeList(n, f) ==
  [k \in 1..n |-> Item(ToString(k), "Item", f[k].weight, f[k].grade, "Assignment",
                       f[k].hurdle, Undefined)]

\* the hooks other than the inputs, before the first render
Unrendered ==
  /\ autoCalcExamFromFinal = TRUE
  /\ finalGradeShowRangeWarning = FALSE
  /\ memo = useMemoStats(<<>>, Num(50), <<>>)
  /\ passCard = "none"
  /\ effectDeps = depsOf(useMemoStats(<<>>, Num(50), <<>>), <<>>, TRUE)
  /\ pending = {}
  /\ dirty = TRUE
  /\ loadState = "done"
  /\ nextId = 0
  /\ edits = 0
  /\ lastEdit = "mount"
  /\ effectWrites = 0
  /\ writeBackRuns = 0
  /\ solved = {}
  /\ OffScreenIdle

\* an item list with an even split, beside the lists drawn from RangeFields
RangeScenarios ==
  { << Item("1", "Item", <<"5", "0">>, <<"8", "0">>, "Assignment", FALSE, Undefined),
       Item("2", "Item", <<"5", "0">>, <<>>, "Assignment", FALSE, Undefined) >> }

InitRange ==
  /\ \/ \E n \in 0..MaxCoreItems : \E f \in [1..n -> RangeFields] : items = RangeList(n, f)
     \/ items \in RangeScenarios
  /\ targetPass \in RangeTargets
  /\ finalSubjectGrade = <<>>
  /\ Unrendered

NextRange == Render

SpecRange == InitRange /\ [][NextRange]_vars

\* the same lists without hurdle items
WeightFields == [weight : RangeWeights, grade : RangeGrades, hurdle : {FALSE}]

InitWeights ==
  /\ \E n \in 0..MaxCoreItems : \E f \in [1..n -> WeightFields] : items = RangeList(n, f)
  /\ targetPass \in RangeTargets
  /\ finalSubjectGrade = <<>>
  /\ Unrendered

NextWeights == Render

SpecWeights == InitWeights /\ [][NextWeights]_vars

\* ------------------------------------------------------------------------
\* The stats memo over lists with grades of 0 and missing grades
\* ------------------------------------------------------------------------
MissingWeights == { <<"5", "0">>, <<"0">> }

MissingGrades == { <<>>, Undefined, <<"0">>, <<"8", "0">> }

MissingFields ==
  [weight : MissingWeights, grade : MissingGrades, type : CoreKinds, hurdle : BOOLEAN]

InitMissing ==
  /\ \E n \in 0..MaxCoreItems : \E f \in [1..n -> MissingFields] : items = CoreList(n, f)
  /\ targetPass = Num(50)
  /\ finalSubjectGrade = <<"7", "0">>
  /\ Unrendered

NextMissing == Render

SpecMissing == InitMissing /\ [][NextMissing]_vars

\* ------------------------------------------------------------------------
\* toNum over raw texts, as a stored final subject grade reaches it
\* ------------------------------------------------------------------------
\* longest raw text parsed
MaxTextLen == 3

ParseChars == { "1", "5", ",", ".", "%", "a" }

InitParse ==
  /\ items = <<>>
  /\ targetPass = Num(50)
  /\ \E n \in 0..MaxTextLen : finalSubjectGrade \in [1..n -> ParseChars]
  /\ Unrendered

NextParse == Render

SpecParse == InitParse /\ [][NextParse]_vars

\* ------------------------------------------------------------------------
\* The stats memo over texts that are not percentages
\* ------------------------------------------------------------------------
TextWeights == { <<>>, <<"-", "5">>, <<"1", "5", "0">>, <<"4", ",", "5">> }

TextGrades == { <<>>, <<"-", "5">>, <<"1", "5", "0">>, <<"a", "b", "c">> }

TextFinals == { <<>>, <<"-", "5">>, <<"1", "5", "0">>, <<"a", "b", "c">> }

TextFields == [weight : TextWeights, grade : TextGrades, type : CoreKinds, hurdle : {FALSE}]

InitTexts ==
  /\ \E n \in 0..MaxCoreItems : \E f \in [1..n -> TextFields] : items = CoreList(n, f)
  /\ targetPass = Num(50)
  /\ finalSubjectGrade \in TextFinals
  /\ Unrendered

NextTexts == Render

SpecTexts == InitTexts /\ [][NextTexts]_vars

\* ------------------------------------------------------------------------
\* Properties
\* ------------------------------------------------------------------------
\* what the properties read off an item list
Clamp0To100(x) ==
  IF RLt(x, Num(0)) THEN Num(0) ELSE IF RLt(Num(100), x) THEN Num(100) ELSE x

Within005(a, b) ==
  /\ RLe(RSub(a, b), Rat(1, 20))
  /\ RLe(RSub(b, a), Rat(1, 20))

WeightOf(it) == Clamp0To100(toNum(it.weight))

GradeOf(it) == Clamp0To100(toNum(it.grade))

Graded(it) == it.grade # Undefined /\ Len(it.grade) > 0

ExamIndices == {k \in 1..Len(items) : items[k].type = "Exam"}

FirstExam == CHOOSE k \in ExamIndices : \A j \in ExamIndices : k <= j

RECURSIVE ContributionOver(_)
ContributionOver(S) ==
  IF S = {} THEN Num(0)
  ELSE LET k == CHOOSE j \in S : TRUE
       IN  RAdd(RDiv(RMul(WeightOf(items[k]), GradeOf(items[k])), Num(100)),
                ContributionOver(S \ {k}))

RECURSIVE WeightOver(_)
WeightOver(S) ==
  IF S = {} THEN Num(0)
  ELSE LET k == CHOOSE j \in S : TRUE
       IN  RAdd(WeightOf(items[k]), WeightOver(S \ {k}))

GradedIndices == {k \in 1..Len(items) : Graded(items[k])}

FinalPresent == Len(finalSubjectGrade) > 0

FinalValue == Clamp0To100(toNum(finalSubjectGrade))

\* the stored grade of the (first) Exam item is within 0.05 of the solved grade
ExamGradeSynced ==
  /\ ExamIndices # {}
  /\ Graded(items[FirstExam])
  /\ memo.requiredExamToHitFinal # Null
  /\ Within005(GradeOf(items[FirstExam]), memo.requiredExamToHitFinal)

\* C1: in every quiescent state with auto-solve on and a solvable
\* configuration, the Exam item's stored grade is within 0.05 of
\* requiredExamGrade (stated as claimed; the code violates it)
C1_AutoSolveKeepsExamSynced ==
  (Quiescent /\ autoCalcExamFromFinal /\ memo.canAutoCalcExam) => ExamGradeSynced

OneDecimalOf(t, req) ==
  /\ Len(t) >= 3
  /\ t[Len(t) - 1] = "."
  /\ \A k \in 1..Len(t) : k # Len(t) - 1 => IsDigit(t[k])
  /\ Within005(toNum(t), req)

WriteBackStep == "writeBack" \in pending /\ "writeBack" \notin pending'

\* C3: when the write-back effect runs with auto-solve on and a solvable
\* configuration, a stored Exam grade that is non-empty and within 0.05
\* (inclusive) of requiredExamGrade leaves the item list unchanged; a write
\* happens only when the stored grade is empty or differs by more than 0.05,
\* it changes the Exam item's grade alone, and the written text is
\* requiredExamGrade with one decimal place
C3_WriteOnlyBeyondEpsilon ==
  [][WriteBackStep =>
       IF autoCalcExamFromFinal /\ memo.canAutoCalcExam
       THEN LET k    == FirstExam
                cur  == items[k]
                near == Graded(cur) /\ Within005(GradeOf(cur), memo.requiredExamToHitFinal)
            IN  /\ near => items' = items
                /\ ~near =>
                     /\ OneDecimalOf(items'[k].grade, memo.requiredExamToHitFinal)
                     /\ Len(items') = Len(items)
                     /\ \A j \in 1..Len(items) : j # k => items'[j] = items[j]
                     /\ \A f \in {"id", "name", "weight", "type", "hurdle", "dueDateISO"} :
                          items'[k][f] = cur[f]
       ELSE items' = items]_vars

\* the write-back has just run on a stored grade exactly 0.05 below the
\* solved grade and has written nothing
C3_Witness ==
  /\ writeBackRuns = 1
  /\ effectWrites = 0
  /\ pending = {}
  /\ autoCalcExamFromFinal
  /\ memo.canAutoCalcExam
  /\ ExamIndices # {}
  /\ Graded(items[FirstExam])
  /\ RSub(memo.requiredExamToHitFinal, GradeOf(items[FirstExam])) = Rat(1, 20)

\* the solved grade as the exam-back-solver formula gives it
ExpectedRequiredExam ==
  Clamp0To100(RMul(RDiv(RSub(FinalValue,
                             ContributionOver(GradedIndices \ ExamIndices)),
                        WeightOf(items[FirstExam])),
                   Num(100)))

C4_Example ==
  /\ Len(items) = 2
  /\ items[1].type = "Assignment" /\ items[1].weight = <<"5", "0">>
  /\ items[1].grade = <<"8", "0">>
  /\ items[2].type = "Exam" /\ items[2].weight = <<"5", "0">> /\ items[2].grade = <<>>
  /\ finalSubjectGrade = <<"7", "0">>

\* C4: when solvable, requiredExamGrade =
\* clamp((manualFinalGrade - otherContribution) / examWeight * 100, 0, 100) with
\* otherContribution summed over the non-exam items; [Assignment w=50 g=80,
\* Exam w=50 ungraded] with final 70 gives exactly 60; when not solvable it is null
C4_RequiredExamFormula ==
  ~dirty =>
    /\ memo.canAutoCalcExam => memo.requiredExamToHitFinal = ExpectedRequiredExam
    /\ ~memo.canAutoCalcExam => memo.requiredExamToHitFinal = Null
    /\ C4_Example => memo.canAutoCalcExam /\ memo.requiredExamToHitFinal = Num(60)

C4_Witness ==
  ~dirty /\ C4_Example /\ memo.requiredExamToHitFinal = Num(60)

\* C5: canAutoCalcExam holds exactly when the final grade is present, exactly
\* one item is an Exam and its weight is > 0, and every other item with
\* weight > 0 is graded; every graded item other than the solved Exam item is
\* counted in otherContribution (stated as claimed; the code violates it)
C5_SolvableIffExactlyOneExam ==
  ~dirty =>
    /\ memo.canAutoCalcExam <=>
         /\ FinalPresent
         /\ Cardinality(ExamIndices) = 1
         /\ RLt(Num(0), WeightOf(items[FirstExam]))
         /\ \A k \in 1..Len(items) :
              (k # FirstExam /\ RLt(Num(0), WeightOf(items[k]))) => Graded(items[k])
    /\ memo.canAutoCalcExam =>
         memo.otherContributionForAutoCalc = ContributionOver(GradedIndices \ {FirstExam})

\* C6: with auto-solve on, once the effects have run after an edit of the
\* final grade or of a non-exam item's grade that leaves the configuration
\* solvable, the Exam item's stored grade is within 0.05 of requiredExamGrade
\* (stated as claimed; the code violates it)
C6_EditsResyncExam ==
  (/\ Quiescent
   /\ lastEdit \in {"final", "otherGrade"}
   /\ autoCalcExamFromFinal
   /\ memo.canAutoCalcExam) => ExamGradeSynced

\* C7: while auto-solve is off (from the toggle on), no Exam item holds a
\* grade that the write-back wrote (stated as claimed; the code violates it)
C7_ToggleOffLeavesNoSolvedGrade ==
  ~autoCalcExamFromFinal =>
     \A k \in 1..Len(items) : items[k].type = "Exam" => items[k].id \notin solved

ToggleStep == lastEdit' = "toggle" /\ edits' = edits + 1

\* C8: toggling auto-solve off changes only the flag and the Exam item's
\* grade; toggling it on changes only the flag
C8_ToggleFrame ==
  [][ToggleStep =>
       /\ autoCalcExamFromFinal' = ~autoCalcExamFromFinal
       /\ targetPass' = targetPass
       /\ finalSubjectGrade' = finalSubjectGrade
       /\ finalGradeShowRangeWarning' = finalGradeShowRangeWarning
       /\ Len(items') = Len(items)
       /\ \A k \in 1..Len(items) :
            /\ \A f \in {"id", "name", "weight", "type", "hurdle", "dueDateISO"} :
                 items'[k][f] = items[k][f]
            /\ items'[k].grade # items[k].grade =>
                 /\ autoCalcExamFromFinal
                 /\ items[k].type = "Exam"
                 /\ k = FirstExam
                 /\ items'[k].grade = <<>>]_vars

\* auto-solve was just toggled off on a list whose Exam item has a due date
\* and a graded hurdle item: the Exam grade is empty, the rest is still there
C8_Witness ==
  /\ lastEdit = "toggle"
  /\ ~autoCalcExamFromFinal
  /\ dirty
  /\ ExamIndices # {}
  /\ items[FirstExam].grade = <<>>
  /\ items[FirstExam].dueDateISO # Undefined
  /\ \E k \in 1..Len(items) : items[k].hurdle /\ Graded(items[k])

\* the outcome by first match, from the item list and the pass mark alone
ExpectedOutcome ==
  LET remaining   == Clamp0To100(RSub(Num(100), WeightOver(GradedIndices)))
      accumulated == Clamp0To100(ContributionOver(GradedIndices))
      best        == Clamp0To100(RAdd(accumulated, remaining))
      left        == RLt(Rat(1, 100), remaining)
      failed      == \E k \in GradedIndices :
                        items[k].hurdle /\ RLt(GradeOf(items[k]), Num(50))
      missing     == \E k \in 1..Len(items) : items[k].hurdle /\ ~Graded(items[k])
  IN  CASE failed -> "HurdleBlocked"
        [] ~failed /\ RLt(best, targetPass) /\ left -> "Impossible"
        [] ~failed /\ ~(RLt(best, targetPass) /\ left) /\ ~left -> "Finalized"
        [] ~failed /\ ~RLt(best, targetPass) /\ left /\ ~missing
             /\ RLe(targetPass, accumulated) -> "AlreadyPassed"
        [] OTHER -> "NeedsAverage"

\* C9: the outcome shown is one of the five, chosen by first match in the
\* order HurdleBlocked, Impossible, Finalized, AlreadyPassed, NeedsAverage,
\* and is a function of the current item list and settings alone
C9_OutcomeIsFirstMatch ==
  ~dirty =>
    /\ passCard \in {"HurdleBlocked", "Impossible", "Finalized", "AlreadyPassed",
                     "NeedsAverage"}
    /\ passCard = ExpectedOutcome

\* a failed hurdle on a fully graded list: HurdleBlocked is shown although
\* Finalized matches as well
C9_Witness ==
  /\ ~dirty
  /\ edits > 0
  /\ passCard = "HurdleBlocked"
  /\ ~RLt(Rat(1, 100), memo.remainingWeight)

\* C10: the outcome is HurdleBlocked exactly when some hurdle item has a
\* grade present whose clamped value is below 50, whatever the pass mark, the
\* accumulated contribution and the remaining weight
C10_HurdleVeto ==
  ~dirty =>
    (passCard = "HurdleBlocked" <=>
       \E k \in 1..Len(items) :
          items[k].hurdle /\ Graded(items[k]) /\ RLt(GradeOf(items[k]), Num(50)))

\* a failed hurdle vetoes a fully graded list that reaches the pass mark
C10_Witness ==
  /\ ~dirty
  /\ passCard = "HurdleBlocked"
  /\ RLe(targetPass, memo.finalMin)
  /\ memo.remainingWeight = Num(0)

\* the aggregates, from the item list alone
CompletedWeight == WeightOver(GradedIndices)

RemainingWeight == Clamp0To100(RSub(Num(100), CompletedWeight))

Accumulated == Clamp0To100(ContributionOver(GradedIndices))

BestFinal == Clamp0To100(RAdd(Accumulated, RemainingWeight))

HurdleFailed ==
  \E k \in GradedIndices : items[k].hurdle /\ RLt(GradeOf(items[k]), Num(50))

HurdleMissing ==
  \E k \in 1..Len(items) : items[k].hurdle /\ ~Graded(items[k])

C11_Example ==
  /\ Len(items) = 2
  /\ items[1].weight = <<"8", "0">> /\ items[1].grade = <<"3", "0">> /\ ~items[1].hurdle
  /\ items[2].weight = <<"2", "0">> /\ items[2].grade = <<>> /\ ~items[2].hurdle
  /\ targetPass = Num(70)

\* C11 as claimed: no hurdle failed, finalMax < targetPass and any strictly
\* positive remaining weight give the outcome Impossible
C11_ImpossibleAnyRemaining ==
  ~dirty =>
    ((~HurdleFailed /\ RLt(BestFinal, targetPass) /\ RLt(Num(0), RemainingWeight))
       => passCard = "Impossible")

\* C11 amended: with no hurdle failed, the outcome is Impossible exactly when
\* finalMax < targetPass and the remaining weight exceeds 0.01; [w=80 g=30,
\* w=20 ungraded] with target 70 gives finalMax 44 and Impossible
C11_ImpossibleBeyondTolerance ==
  ~dirty =>
    /\ ~HurdleFailed =>
         (passCard = "Impossible" <=>
            RLt(BestFinal, targetPass) /\ RLt(Rat(1, 100), RemainingWeight))
    /\ C11_Example => memo.finalMax = Num(44) /\ passCard = "Impossible"

C11_Witness ==
  ~dirty /\ C11_Example /\ memo.finalMax = Num(44) /\ passCard = "Impossible"

C12_Example ==
  /\ Len(items) = 1
  /\ items[1].weight = <<"1", "0", "0">> /\ items[1].grade = <<"8", "5">>
  /\ ~items[1].hurdle
  /\ targetPass = Num(50)

\* C12 as claimed: every item graded (remaining weight 0), no hurdle items
\* and finalMin >= targetPass give the outcome AlreadyPassed
C12_FullyGradedAlreadyPassed ==
  ~dirty =>
    ((/\ \A k \in 1..Len(items) : Graded(items[k]) /\ ~items[k].hurdle
      /\ RemainingWeight = Num(0)
      /\ RLe(targetPass, Accumulated)) => passCard = "AlreadyPassed")

\* C12 amended: with no hurdle failed, a remaining weight of at most 0.01
\* gives Finalized whatever finalMin is ([w=100 g=85] with target 50 is
\* Finalized); AlreadyPassed is the outcome exactly when no hurdle is failed
\* or ungraded, finalMin >= targetPass and more than 0.01 of weight remains
C12_FinalizedBeforeAlreadyPassed ==
  ~dirty =>
    /\ (~HurdleFailed /\ RLe(RemainingWeight, Rat(1, 100))) => passCard = "Finalized"
    /\ passCard = "AlreadyPassed" <=>
         /\ ~HurdleFailed
         /\ ~HurdleMissing
         /\ RLe(targetPass, Accumulated)
         /\ RLt(Rat(1, 100), RemainingWeight)
    /\ C12_Example => passCard = "Finalized"

C12_Witness ==
  ~dirty /\ C12_Example /\ memo.finalMin = Num(85) /\ passCard = "Finalized"

\* the required average on what remains, from the item list and pass mark alone
ExpectedRequiredAvg ==
  RMul(RDiv(RSub(targetPass, Accumulated), RemainingWeight), Num(100))

C13_Example ==
  /\ Len(items) = 2
  /\ items[1].weight = <<"5", "0">> /\ items[1].grade = <<"8", "0">>
  /\ items[2].weight = <<"5", "0">> /\ items[2].grade = <<>> /\ ~items[2].hurdle
  /\ targetPass = Num(70)

\* C13: requiredAvgOnRemaining is null exactly when remainingWeight = 0;
\* otherwise it is (targetPass - accumulated) / remainingWeight * 100 and is
\* shown clamped to [0,100]; [w=50 g=80, w=50 ungraded] with target 70 gives
\* accumulated 40, remaining 50, required 60 and NeedsAverage
C13_RequiredAverage ==
  ~dirty =>
    /\ memo.requiredOnRemaining = Null <=> RemainingWeight = Num(0)
    /\ requiredDisplayOf(memo) = Null <=> RemainingWeight = Num(0)
    /\ RemainingWeight # Num(0) =>
         /\ memo.requiredOnRemaining = ExpectedRequiredAvg
         /\ requiredDisplayOf(memo) = Clamp0To100(ExpectedRequiredAvg)
    /\ C13_Example =>
         /\ memo.finalMin = Num(40)
         /\ memo.remainingWeight = Num(50)
         /\ memo.requiredOnRemaining = Num(60)
         /\ passCard = "NeedsAverage"

C13_Witness ==
  ~dirty /\ C13_Example /\ requiredDisplayOf(memo) = Num(60) /\ passCard = "NeedsAverage"

\* C14: for every item list, also when the weights sum to more or less than
\* 100, 0 <= finalMin <= finalMax <= 100
C14_RangeOrdered ==
  ~dirty =>
    /\ RLe(Num(0), memo.finalMin)
    /\ RLe(memo.finalMin, memo.finalMax)
    /\ RLe(memo.finalMax, Num(100))

\* graded weights of 200 with contributions above 100
C14_Witness ==
  /\ ~dirty
  /\ RLt(Num(100), CompletedWeight)
  /\ RLt(Num(100), ContributionOver(GradedIndices))
  /\ memo.finalMin = Num(100)
  /\ memo.finalMax = Num(100)

\* C15: finalMin = finalMax if and only if remainingWeight is 0; with any
\* remainingWeight > 0 finalMax is strictly greater than finalMin
C15_RangeCollapsesIffNothingRemains ==
  ~dirty =>
    /\ memo.finalMin = memo.finalMax <=> RemainingWeight = Num(0)
    /\ RLt(Num(0), RemainingWeight) => RLt(memo.finalMin, memo.finalMax)

\* a remaining weight of 0.005 keeps the two bounds apart
C15_Witness ==
  /\ ~dirty
  /\ RemainingWeight = Rat(5, 1000)
  /\ RSub(memo.finalMax, memo.finalMin) = Rat(5, 1000)

\* the stats of the current list with the grade of item k replaced
Regraded(k, g) == useMemoStats([items EXCEPT ![k].grade = g], targetPass, finalSubjectGrade)

\* C16: replacing the grade of one graded item by a larger grade, with its
\* weight and all other items fixed, never decreases accumulatedContribution,
\* finalMin or finalMax
C16_MonotoneInGrade ==
  ~dirty =>
    \A k \in GradedIndices : \A g \in RangeGrades :
       (g # <<>> /\ RLe(GradeOf(items[k]), Clamp0To100(toNum(g)))) =>
          LET m == Regraded(k, g)
          IN  /\ RLe(memo.sumContribution, m.sumContribution)
              /\ RLe(memo.finalMin, m.finalMin)
              /\ RLe(memo.finalMax, m.finalMax)

\* an item graded 30 whose regrading to 85 raises all three strictly
C16_Witness ==
  /\ ~dirty
  /\ \E k \in GradedIndices :
        /\ items[k].grade = <<"3", "0">>
        /\ RLt(memo.sumContribution, Regraded(k, <<"8", "5">>).sumContribution)
        /\ RLt(memo.finalMin, Regraded(k, <<"8", "5">>).finalMin)
        /\ RLt(memo.finalMax, Regraded(k, <<"8", "5">>).finalMax)

SameRange(m) ==
  /\ m.remainingWeight = memo.remainingWeight
  /\ m.finalMin = memo.finalMin
  /\ m.finalMax = memo.finalMax

Reweighted(k, w) == useMemoStats([items EXCEPT ![k].weight = w], targetPass, finalSubjectGrade)

Without(k) ==
  useMemoStats(SubSeq(items, 1, k - 1) \o SubSeq(items, k + 1, Len(items)),
               targetPass, finalSubjectGrade)

WithUngraded(w) ==
  useMemoStats(Append(items, Item("new", "Item", w, <<>>, "Assignment", FALSE, Undefined)),
               targetPass, finalSubjectGrade)

\* C17: remainingWeight = clamp(100 - completedWeight, 0, 100) with
\* completedWeight the clamped weights of the graded items only; adding,
\* removing or re-weighting an ungraded item changes totalWeight and leaves
\* remainingWeight, finalMin and finalMax unchanged
C17_RemainingAnchoredTo100 ==
  ~dirty =>
    /\ memo.remainingWeight = RemainingWeight
    /\ memo.totalWeight = WeightOver(1..Len(items))
    /\ \A w \in RangeWeights :
         LET m == WithUngraded(w)
         IN  /\ SameRange(m)
             /\ m.totalWeight = RAdd(memo.totalWeight, Clamp0To100(toNum(w)))
    /\ \A k \in (1..Len(items)) \ GradedIndices :
         /\ LET m == Without(k)
            IN  /\ SameRange(m)
                /\ m.totalWeight = RSub(memo.totalWeight, WeightOf(items[k]))
         /\ \A w \in RangeWeights :
              LET m == Reweighted(k, w)
              IN  /\ SameRange(m)
                  /\ m.totalWeight =
                       RAdd(RSub(memo.totalWeight, WeightOf(items[k])),
                            Clamp0To100(toNum(w)))

\* an ungraded item beside graded ones on a list whose weights exceed 100
C17_Witness ==
  /\ ~dirty
  /\ \E k \in (1..Len(items)) \ GradedIndices : RLt(Num(0), WeightOf(items[k]))
  /\ RLt(Num(100), memo.totalWeight)
  /\ RLt(Num(0), memo.remainingWeight)
  /\ memo.remainingWeight # RSub(memo.totalWeight, CompletedWeight)

GradedZero == {k \in GradedIndices : GradeOf(items[k]) = Num(0)}

Ungraded == (1..Len(items)) \ GradedIndices

\* C18: a missing grade is distinct from a grade of 0.  An item graded 0 adds
\* its weight to completedWeight and 0 to the contribution, fails a hurdle if
\* it is one, and counts as graded for the exam solver; an ungraded item adds
\* to neither, never fails a hurdle, and with weight > 0 and a kind other
\* than Exam makes the configuration unsolvable
C18_MissingIsNotZero ==
  ~dirty =>
    /\ \A k \in GradedZero :
         /\ memo.sumContribution = ContributionOver(GradedIndices \ {k})
         /\ memo.remainingWeight =
              Clamp0To100(RSub(RSub(Num(100), WeightOver(GradedIndices \ {k})),
                               WeightOf(items[k])))
         /\ items[k].hurdle => memo.anyHurdleFailed /\ passCard = "HurdleBlocked"
    /\ memo.sumContribution = ContributionOver((1..Len(items)) \ Ungraded)
    /\ memo.remainingWeight =
         Clamp0To100(RSub(Num(100), WeightOver((1..Len(items)) \ Ungraded)))
    /\ memo.anyHurdleFailed =>
         \E k \in (1..Len(items)) \ Ungraded :
            items[k].hurdle /\ RLt(GradeOf(items[k]), Num(50))
    /\ (\E k \in Ungraded : items[k].type # "Exam" /\ RLt(Num(0), WeightOf(items[k])))
         => ~memo.canAutoCalcExam
    /\ (/\ FinalPresent
        /\ ExamIndices # {}
        /\ \A k \in Ungraded : items[k].type = "Exam" \/ WeightOf(items[k]) = Num(0))
         => (memo.canAutoCalcExam <=> RLt(Num(0), WeightOf(items[FirstExam])))

\* a hurdle graded 0 beside an ungraded Exam: the exam is solvable, the
\* hurdle is failed and the item's weight is completed
C18_Witness ==
  /\ ~dirty
  /\ Len(items) = 2
  /\ items[1].type = "Assignment" /\ items[1].hurdle
  /\ items[1].grade = <<"0">> /\ items[1].weight = <<"5", "0">>
  /\ items[2].type = "Exam" /\ items[2].grade = <<>> /\ items[2].weight = <<"5", "0">>
  /\ memo.canAutoCalcExam
  /\ memo.anyHurdleFailed
  /\ memo.remainingWeight = Num(50)
  /\ memo.finalMax = Num(50)

FinalOutsideRange ==
  /\ FinalPresent
  /\ \/ RLt(FinalValue, RSub(Accumulated, Rat(1, 20)))
     \/ RLt(RAdd(BestFinal, Rat(1, 20)), FinalValue)

WarningVisible == ~dirty /\ showFinalRangeWarningOf(memo, finalGradeShowRangeWarning)

FinalFieldTouched == edits' = edits + 1 /\ lastEdit' \in {"final", "finalFocus"}

FinalFieldBlurred == edits' = edits + 1 /\ lastEdit' = "finalBlur"

FocusEventStep == edits' = edits + 1 /\ lastEdit' \in {"finalFocus", "finalBlur"}

\* C19: the range warning is visible only when the final grade is present
\* and lies below finalMin - 0.05 or above finalMax + 0.05; a change of, a
\* focus on or a clearing of the final-grade field hides it and only a blur of
\* that field can bring it back; the focus and blur events change no item, no
\* setting and no outcome, start no effect, and a visible warning leaves the
\* edit handlers enabled
C19_RangeWarningFocusGated ==
  /\ [](WarningVisible => (finalGradeShowRangeWarning /\ FinalOutsideRange))
  /\ [][/\ FinalFieldTouched => ~finalGradeShowRangeWarning'
        /\ (~finalGradeShowRangeWarning /\ finalGradeShowRangeWarning') => FinalFieldBlurred
        /\ FocusEventStep =>
             /\ items' = items
             /\ targetPass' = targetPass
             /\ finalSubjectGrade' = finalSubjectGrade
             /\ autoCalcExamFromFinal' = autoCalcExamFromFinal
             /\ passCard' = passCard
        /\ (lastEdit \in {"finalFocus", "finalBlur"} /\ dirty /\ ~dirty') =>
             /\ passCard' = passCard
             /\ memo' = memo
             /\ pending' = {}
       ]_vars
  /\ []((WarningVisible /\ Quiescent /\ edits < MaxEdits) =>
          /\ ENABLED EditFinalSubjectGrade
          /\ ENABLED ClearFinalSubjectGrade
          /\ ENABLED toggleAutoCalc
          /\ ENABLED EditTargetPass
          /\ ENABLED EditGrade)

\* the field was blurred on a final grade outside the range: the warning shows
C19_Witness ==
  /\ WarningVisible
  /\ lastEdit = "finalBlur"
  /\ FinalOutsideRange
  /\ Quiescent

Percentage(x) == RLe(Num(0), x) /\ RLe(x, Num(100))

\* what each text of the domain stands for
TreatedAs(t) ==
  CASE t = <<"1", "5", "0">> -> Num(100)
    [] t = <<"4", ",", "5">> -> Rat(9, 2)
    [] OTHER -> Num(0)

RECURSIVE TreatedContribution(_)
TreatedContribution(S) ==
  IF S = {} THEN Num(0)
  ELSE LET k == CHOOSE j \in S : TRUE
       IN  RAdd(RDiv(RMul(TreatedAs(items[k].weight), TreatedAs(items[k].grade)), Num(100)),
                TreatedContribution(S \ {k}))

RECURSIVE TreatedWeight(_)
TreatedWeight(S) ==
  IF S = {} THEN Num(0)
  ELSE LET k == CHOOSE j \in S : TRUE
       IN  RAdd(TreatedAs(items[k].weight), TreatedWeight(S \ {k}))

\* C20: for every item list and settings, with any weight, grade and final
\* grade text, every numeric output that is defined lies in [0,100]; a text
\* above 100 is treated as 100, a negative or unparseable one as 0
C20_CoreTotal ==
  ~dirty =>
    /\ Percentage(memo.remainingWeight)
    /\ Percentage(memo.finalMin)
    /\ Percentage(memo.finalMax)
    /\ requiredDisplayOf(memo) # Null => Percentage(requiredDisplayOf(memo))
    /\ memo.requiredExamToHitFinal # Null => Percentage(memo.requiredExamToHitFinal)
    /\ memo.finalGradeNumeric # Null =>
         memo.finalGradeNumeric = TreatedAs(finalSubjectGrade)
    /\ memo.finalGradeNumeric = Null <=> finalSubjectGrade = <<>>
    /\ memo.sumContribution = TreatedContribution(GradedIndices)
    /\ memo.totalWeight = TreatedWeight(1..Len(items))
    /\ memo.remainingWeight =
         Clamp0To100(RSub(Num(100), TreatedWeight(GradedIndices)))
    /\ passCard \in {"HurdleBlocked", "Impossible", "Finalized", "AlreadyPassed",
                     "NeedsAverage"}

\* texts above 100 and below 0 side by side, with a solved exam grade
C20_Witness ==
  /\ ~dirty
  /\ Len(items) = 2
  /\ items[1].weight = <<"1", "5", "0">> /\ items[1].grade = <<"1", "5", "0">>
  /\ items[1].type = "Assignment"
  /\ items[2].weight = <<"4", ",", "5">> /\ items[2].grade = <<"-", "5">>
  /\ items[2].type = "Exam"
  /\ finalSubjectGrade = <<"1", "5", "0">>
  /\ memo.finalMin = Num(100)
  /\ memo.remainingWeight = Num(0)
  /\ memo.requiredExamToHitFinal = Num(0)

\* ------------------------------------------------------------------------
\* C22: the order of the items
\* ------------------------------------------------------------------------
\* the orders a drag can give a list of n items
Orders(n) == {p \in [1..n -> 1..n] : \A j, k \in 1..n : p[j] = p[k] => j = k}

\* the item list in the order p
InOrder(p) == [k \in 1..Len(items) |-> items[p[k]]]

\* the quantities of a render that the order must not change
SameResults(m, outcome) ==
  /\ m.totalWeight = memo.totalWeight
  /\ m.remainingWeight = memo.remainingWeight
  /\ m.finalMin = memo.finalMin
  /\ m.finalMax = memo.finalMax
  /\ m.requiredOnRemaining = memo.requiredOnRemaining
  /\ m.anyHurdleFailed = memo.anyHurdleFailed
  /\ m.anyHurdleMissing = memo.anyHurdleMissing
  /\ outcome = passCard
  /\ m.canAutoCalcExam = memo.canAutoCalcExam
  /\ m.requiredExamToHitFinal = memo.requiredExamToHitFinal

\* C22: for every item list and every order of it, totalWeight,
\* remainingWeight, finalMin, finalMax, requiredAvgOnRemaining, the hurdle
\* flags, the outcome, canAutoCalcExam and requiredExamGrade are the same
\* (stated as claimed; the code violates it)
C22_OrderHasNoMeaning ==
  ~dirty =>
    \A p \in Orders(Len(items)) :
       LET m == useMemoStats(InOrder(p), targetPass, finalSubjectGrade)
       IN  SameResults(m, passCardOutcome(m, targetPass))

\* the same on lists with at most one Exam item
C22_OrderWithOneExam ==
  (~dirty /\ Cardinality(ExamIndices) <= 1) => C22_OrderHasNoMeaning

\* a reorder by itself makes no effect write a grade
C22_ReorderWritesNothing ==
  lastEdit = "reorder" => effectWrites = 0

\* a reorder made as the first edit of a session, on a list with one Exam item
C22_FirstReorderWritesNothing ==
  (lastEdit = "reorder" /\ edits = 1 /\ Cardinality(ExamIndices) <= 1) => effectWrites = 0

\* ------------------------------------------------------------------------
\* C23: the lenient parser
\* ------------------------------------------------------------------------
\* the text without the characters that are not a digit, a comma or a dot
RECURSIVE KeepNumeric(_)
KeepNumeric(t) ==
  IF t = <<>> THEN <<>>
  ELSE IF IsDigit(Head(t)) \/ Head(t) \in {",", "."}
       THEN <<Head(t)>> \o KeepNumeric(Tail(t))
       ELSE KeepNumeric(Tail(t))

HasDot(t) == \E k \in 1..Len(t) : t[k] = "."

\* a comma is the decimal separator when the text has no dot
DecimalCommas(t) ==
  IF HasDot(t) THEN t ELSE [k \in 1..Len(t) |-> IF t[k] = "," THEN "." ELSE t[k]]

\* parseLenient as the specification describes it
parseLenient(t) ==
  LET n == UnsignedNumber(DecimalCommas(KeepNumeric(t)))
  IN  IF n = Null THEN Num(0) ELSE n

IsNumericText(t) == KeepNumeric(t) = t

\* C23: a raw text is parsed as the number its digits, commas and dots form
\* once every other character is stripped: '12%' as 12, '7a5' as 75, '1,5'
\* as 1.5 (stated as claimed; the code violates it)
C23_ParseLenientStrips ==
  (~dirty /\ finalSubjectGrade # <<>>) =>
     memo.finalGradeNumeric = Clamp0To100(parseLenient(finalSubjectGrade))

\* the same on texts made of digits, commas and dots only
C23_ParseOfNumericText ==
  (~dirty /\ finalSubjectGrade # <<>> /\ IsNumericText(finalSubjectGrade)) =>
     memo.finalGradeNumeric = Clamp0To100(parseLenient(finalSubjectGrade))

\* ------------------------------------------------------------------------
\* C24: clearing the final subject grade
\* ------------------------------------------------------------------------
\* the final subject grade field has just been emptied
FinalJustEmptied == lastEdit = "final" /\ finalSubjectGrade = <<>>

\* a step of the final subject grade field that empties it
EmptiesFinalStep ==
  edits' = edits + 1 /\ lastEdit' = "final" /\ finalSubjectGrade' = <<>>

\* C24: with auto-solve on, once the effects have run after the final subject
\* grade became empty, the first Exam item's grade is empty, whoever wrote
\* it; with auto-solve off, emptying the field changes no item, neither in
\* the handler nor in the renders and effects that follow it
C24_ClearingFinalClearsExam ==
  /\ []((Quiescent /\ FinalJustEmptied /\ autoCalcExamFromFinal /\ ExamIndices # {})
          => items[FirstExam].grade = <<>>)
  /\ []((FinalJustEmptied /\ ~autoCalcExamFromFinal) => effectWrites = 0)
  /\ [][EmptiesFinalStep => items' = items]_vars
  /\ [][(FinalJustEmptied /\ ~autoCalcExamFromFinal /\ edits' = edits /\ lastEdit' = lastEdit)
        => items' = items]_vars

\* the clear effect has emptied an Exam grade after the second edit emptied
\* the field
C24_Witness ==
  /\ Quiescent /\ FinalJustEmptied /\ autoCalcExamFromFinal
  /\ edits = 2 /\ effectWrites = 1
  /\ ExamIndices # {} /\ items[FirstExam].grade = <<>>

\* ------------------------------------------------------------------------
\* C25: the back-solve round trip
\* ------------------------------------------------------------------------
\* the solution of the back-solve before clamping
RawRequiredExam ==
  RMul(RDiv(RSub(FinalValue, ContributionOver(GradedIndices \ {FirstExam})),
            WeightOf(items[FirstExam])),
       Num(100))

\* one Exam item, auto-solve on, solvable, the solution within [0,100], and
\* the Exam grade is the one the write-back wrote
BackSolveSettled ==
  /\ Quiescent
  /\ autoCalcExamFromFinal
  /\ Cardinality(ExamIndices) = 1
  /\ memo.canAutoCalcExam
  /\ RLe(Num(0), RawRequiredExam) /\ RLe(RawRequiredExam, Num(100))
  /\ items[FirstExam].id \in solved

RawRequiredAvg ==
  RMul(RDiv(RSub(targetPass, ContributionOver(GradedIndices)), RemainingWeight), Num(100))

\* C26: whenever the outcome is NeedsAverage, the remaining weight is above
\* 0.01, the required average is defined and its unclamped value is at most
\* 100, so the figure shown is that value unless it is below 0; it is <= 0
\* only when a hurdle item has no grade yet
C26_NeedsAverageIsReachable ==
  (~dirty /\ passCard = "NeedsAverage") =>
    /\ RLt(Rat(1, 100), RemainingWeight)
    /\ memo.requiredOnRemaining # Null
    /\ memo.requiredOnRemaining = RawRequiredAvg
    /\ RLe(RawRequiredAvg, Num(100))
    /\ requiredDisplayOf(memo) = RMax(Num(0), RawRequiredAvg)
    /\ RLe(RawRequiredAvg, Num(0)) => HurdleMissing

\* the pass mark is already reached but a hurdle item has no grade: the
\* figure shown is 0
C26_Witness ==
  /\ ~dirty /\ passCard = "NeedsAverage"
  /\ RLt(RawRequiredAvg, Num(0))
  /\ requiredDisplayOf(memo) = Num(0)
  /\ HurdleMissing

\* ------------------------------------------------------------------------
\* C21: the persistence round trip
\* ------------------------------------------------------------------------
\* the hooks of a screen that has just been mounted
MountedState ==
  [items |-> seed, targetPass |-> Num(50), finalSubjectGrade |-> <<>>,
   autoCalcExamFromFinal |-> TRUE, set |-> FALSE]

\* the hooks after the load effect has read the text t on a fresh mount
LoadedBack(t) == loadedPlanner(t, MountedState)

\* the planner state restored in full
Restored == [PlannerState EXCEPT !.set = TRUE]

\* the persist effect has just made its call
PersistCallStep ==
  /\ Len(requests') = Len(requests) + 1
  /\ requests'[Len(requests')].for = "persist"

\* the load effect resumes after its read
LoadResumeStep ==
  /\ loadState = "reading" /\ loadState' = "done"
  /\ replies # <<>> /\ Head(replies).for = "load"

\* the read failed, found nothing, or found a text that is no JSON object
UnusableRead ==
  Head(replies).value.raw # "text" \/ Head(replies).value.json.t # "object"

\* C21: the JSON of every planner state, loaded back on a fresh mount,
\* restores the same item list (order, raw weight and grade texts), pass
\* mark, final subject grade and toggle; the persist effect writes that JSON
\* under the planner key; a load that reads a stored planner sets exactly the
\* stored state; a failed or malformed read leaves the state as it was
C21_PersistenceRoundTrip ==
  /\ [](LoadedBack(stringifyPlanner(items, targetPass, finalSubjectGrade,
                                    autoCalcExamFromFinal)) = Restored)
  /\ [][PersistCallStep =>
          /\ requests'[Len(requests')].op = "setItem"
          /\ requests'[Len(requests')].key = "planner"
          /\ LoadedBack(requests'[Len(requests')].value) = Restored]_vars
  /\ [][(LoadResumeStep /\ ~UnusableRead) =>
          \E sp \in StoredStates :
             /\ Head(replies).value = stringifyPlanner(sp.items, sp.targetPass,
                                         sp.finalSubjectGrade, sp.autoCalcExamFromFinal)
             /\ items' = sp.items
             /\ targetPass' = sp.targetPass
             /\ finalSubjectGrade' = sp.finalSubjectGrade
             /\ autoCalcExamFromFinal' = sp.autoCalcExamFromFinal]_vars
  /\ [][(LoadResumeStep /\ UnusableRead) =>
          UNCHANGED << items, targetPass, finalSubjectGrade, autoCalcExamFromFinal,
                       dirty, memo, passCard >>]_vars

\* the storage holds the JSON of a state that differs from the seed in items,
\* final grade and toggle, written by this session
C21_Witness ==
  /\ requests = <<>> /\ Quiescent /\ storePending = {}
  /\ edits = 1
  /\ ~autoCalcExamFromFinal
  /\ finalSubjectGrade # <<>>
  /\ storage.planner = stringifyPlanner(items, targetPass, finalSubjectGrade,
                                        autoCalcExamFromFinal)
  /\ storage.planner # openedOn.planner

\* ------------------------------------------------------------------------
\* C27: the published final mark
\* ------------------------------------------------------------------------
\* no effect, render, storage call or continuation is outstanding
StoreSettled ==
  /\ Quiescent /\ storePending = {}
  /\ requests = <<>> /\ replies = <<>>

\* the subjects list in storage and the one the screen was opened on
StoredSubjects == storage.subjects.json.v

OpenedSubjects == openedOn.subjects.json.v

\* the entry of the list that belongs to the subject of the screen
IsOwnEntry(s) == s.v["code"].v \in {"ABC101", "abc101"}

\* the mark the rule of the claim gives for the rendered planner; Null when
\* the entry is to have no finalMark
ExpectedFinalMark ==
  IF memo.finalGradeNumeric # Null THEN Clamp0To100(memo.finalGradeNumeric)
  ELSE IF /\ RLt(RSub(memo.totalWeight, Num(100)), Rat(1, 100))
          /\ RLt(RSub(Num(100), memo.totalWeight), Rat(1, 100))
          /\ RLe(memo.remainingWeight, Rat(1, 100))
          /\ ~memo.anyHurdleFailed
       THEN memo.finalMin
  ELSE Null

\* C27: once effects and storage writes have settled, the entry of the
\* subject in the stored subjects list carries the clamped manual final
\* grade when one is entered (a failed hurdle or not), otherwise finalMin of
\* a fully weighted, fully graded list with no failed hurdle, otherwise no
\* finalMark; every other key of the entry and every other entry is as it
\* was when the screen was opened
C27_PublishedFinalMark ==
  StoreSettled =>
    /\ storage.subjects.raw = "text"
    /\ Len(StoredSubjects) = Len(OpenedSubjects)
    /\ \A k \in 1..Len(StoredSubjects) :
         IF IsOwnEntry(OpenedSubjects[k])
         THEN /\ WithoutMark(StoredSubjects[k]) = WithoutMark(OpenedSubjects[k])
              /\ IF ExpectedFinalMark = Null
                 THEN ~HasKey(StoredSubjects[k], "finalMark")
                 ELSE /\ HasKey(StoredSubjects[k], "finalMark")
                      /\ StoredSubjects[k].v["finalMark"] = JNum(ExpectedFinalMark)
         ELSE StoredSubjects[k] = OpenedSubjects[k]

\* a manual final grade is published although a hurdle has failed, next to
\* another subject's entry
C27_Witness ==
  /\ StoreSettled
  /\ memo.finalGradeNumeric # Null
  /\ memo.anyHurdleFailed
  /\ \E k \in 1..Len(StoredSubjects) :
        /\ IsOwnEntry(StoredSubjects[k])
        /\ HasKey(StoredSubjects[k], "finalMark")
        /\ \/ ~HasKey(OpenedSubjects[k], "finalMark")
           \/ StoredSubjects[k].v["finalMark"] # OpenedSubjects[k].v["finalMark"]
  /\ \E k \in 1..Len(StoredSubjects) : ~IsOwnEntry(StoredSubjects[k])

\* the mark computed from the assessments is published
C27_WitnessFromAssessments ==
  /\ StoreSettled
  /\ memo.finalGradeNumeric = Null
  /\ \E k \in 1..Len(StoredSubjects) :
        /\ IsOwnEntry(StoredSubjects[k])
        /\ HasKey(StoredSubjects[k], "finalMark")

\* the mark of an earlier session is withdrawn
C27_WitnessWithdrawn ==
  /\ StoreSettled
  /\ \E k \in 1..Len(StoredSubjects) :
        /\ IsOwnEntry(StoredSubjects[k])
        /\ HasKey(OpenedSubjects[k], "finalMark")
        /\ ~HasKey(StoredSubjects[k], "finalMark")

\* ------------------------------------------------------------------------
\* C28: opening a subject and its saved planner
\* ------------------------------------------------------------------------
\* the screen was opened on the JSON of the persisted state sp
OpenedOnState(sp) ==
  openedOn.planner = stringifyPlanner(sp.items, sp.targetPass, sp.finalSubjectGrade,
                                      sp.autoCalcExamFromFinal)

\* the hooks hold the persisted state sp
HoldsState(sp) ==
  /\ items = sp.items
  /\ targetPass = sp.targetPass
  /\ finalSubjectGrade = sp.finalSubjectGrade
  /\ autoCalcExamFromFinal = sp.autoCalcExamFromFinal

\* the opening of the screen has completed and the user has not edited yet
OpeningCompleted == StoreSettled /\ loadState = "done" /\ edits = 0

\* the persisted state sp is back in memory and in storage
SurvivesOpening(sp) ==
  (OpenedOnState(sp) /\ OpeningCompleted) =>
     (HoldsState(sp) /\ storage.planner = openedOn.planner)

\* C28: for a subject whose planner was persisted, under every interleaving
\* of the load's read with the mount-time persist of the seed, once every
\* pending operation has completed the state in memory and the stored state
\* equal the persisted state, not the seed
C28_OpeningKeepsSavedPlanner == \A sp \in StoredStates : SurvivesOpening(sp)

\* the same for the persisted states whose Exam grade was not typed over
C28_OpeningKeepsSettledPlanner ==
  \A sp \in StoredStates \ { OvertypedPlanner } : SurvivesOpening(sp)

\* the mount-time persist has overwritten the stored planner with the seed
\* before the load resumed
C28_SeedWrittenFirst ==
  /\ \E sp \in StoredStates : OpenedOnState(sp)
  /\ loadState = "reading"
  /\ replies # <<>>
  /\ storage.planner = stringifyPlanner(seed, Num(50), <<>>, TRUE)

\* a saved planner is back in memory and storage after the opening
C28_Restored ==
  /\ OpeningCompleted
  /\ \E sp \in StoredStates : OpenedOnState(sp) /\ HoldsState(sp)
  /\ storage.planner = openedOn.planner
  /\ items # seed

\* ------------------------------------------------------------------------
\* C29: the pomodoro session log
\* ------------------------------------------------------------------------
\* a focus countdown reaches zero in this step
FocusReachesZero == remainingSec = 1 /\ remainingSec' = 0 /\ ~onBreak

\* a break countdown reaches zero in this step
BreakReachesZero == remainingSec = 1 /\ remainingSec' = 0 /\ onBreak

\* the step puts one new entry in front of the log and keeps the entries
\* that were there, up to 200 in all
AddsOneEntry ==
  /\ Len(log') = (IF Len(log) < 200 THEN Len(log) + 1 ELSE 200)
  /\ \A k \in 2..Len(log') : log'[k] = log[k - 1]
  /\ \A k \in 1..Len(log) : log[k] # log'[1]

\* C29: every focus countdown that reaches zero adds exactly one entry to
\* the session log, newest first, and keeps the entries logged before it up
\* to the cap of 200, also when the sessions are chained through the alert
\* buttons; a break countdown that reaches zero adds none
C29_SessionLog ==
  [][/\ FocusReachesZero => AddsOneEntry
     /\ BreakReachesZero => log' = log]_vars

\* every interval's callback closes over the log as it is now
ClosuresHoldLog == \A i \in intervals : i.cl.log = log

\* the same for countdowns whose interval was set by a render that had the
\* log as it is at the end of the countdown
C29_LoggedFromFreshRender ==
  [][/\ (FocusReachesZero /\ ClosuresHoldLog) => AddsOneEntry
     /\ BreakReachesZero => log' = log]_vars

\* a second focus session, chained through both alerts, has been logged
C29_ChainedSecondSession ==
  /\ completions = 3
  /\ made = 3
  /\ presses = 1
  /\ ~onBreak
  /\ remainingSec = 0

\* ------------------------------------------------------------------------
\* C30: the pomodoro timer's intervals
\* ------------------------------------------------------------------------
\* C30: at most one countdown interval is active, remainingSec is never
\* below 0, and while the timer is not running (after Pause, Reset or a
\* countdown reaching zero) no interval is left to decrement remainingSec
C30_OneCountdownInterval ==
  /\ Cardinality(intervals) <= 1
  /\ remainingSec >= 0
  /\ ~running => intervals = {}

\* remainingSec is never below 0
C30_NeverNegative == remainingSec >= 0

\* two presses of Start were handled before a render; the countdown has
\* reached zero and one of the two intervals is still set
C30_IntervalLeftAfterZero ==
  /\ made = 2
  /\ completions = 1
  /\ ~running
  /\ timerRef = 0
  /\ intervals # {}

====
